---- MODULE Spec2Model ----
(***************************************************************************)
(* Model of src/core/vcd/vcdValidations.py (class VCDMigrationValidation): *)
(* the preMigrationValidation pipeline, the _isSessionExpired session      *)
(* guard, the apiOutput.json document, the rollback flags and the          *)
(* compensating calls of the except-block of preMigrationValidation.       *)
(*                                                                         *)
(* Control is a call stack of frames.  A frame is one method call; its     *)
(* phase is "probe"/"login" while the decorator _isSessionExpired.inner    *)
(* runs and "body" while the decorated method runs.  An exception unwinds  *)
(* the whole stack in the action that raises it: every frame that is in    *)
(* its body runs its except-handler (which sets the rollback flags), a     *)
(* frame still inside the decorator has no handler.                        *)
(*                                                                         *)
(* Spec follows one run of preMigrationValidation.  PollSpec follows one   *)
(* call of _checkTaskStatus poll by poll.  StoreSpec follows one writer of *)
(* apiOutput.json file operation by file operation, next to a reader       *)
(* outside the program.  CheckSpec applies one validation to one payload.  *)
(* RerunSpec lets the caller run the pipeline again on the same instance.  *)
(* PageSpec follows one call of getOrgVDCComputePolicies page by page.     *)
(***************************************************************************)
EXTENDS Integers, Sequences, FiniteSets, TLC

\* ---------------------------------------------------------------- bounds
MaxRules == 2      \* affinity rules of the source org VDC
MaxExpiry == 1     \* times the remote system may expire the session in a run

Rules == 1..MaxRules

\* ------------------------------------------------------- the pipeline steps
S(op, arg) == [op |-> op, arg |-> arg]

\* The calls of the try-block before disableOrgVDC, in declaration order.
PreSteps ==
  << S("vcdLogin", ""),
     S("getOrgUrl", ""),
     S("getOrgVDCDetails", "sourceOrgVDC"),
     S("validateNoTargetOrgVDCExists", ""),
     S("validateNoEmptyVappsExistInSourceOrgVDC", ""),
     S("validateSourceSuspendedVMsInVapp", ""),
     S("validateNoVappNetworksExist", ""),
     S("validateOrgVDCFastProvisioned", ""),
     S("getExternalNetwork", "source"),
     S("getExternalNetwork", "target"),
     S("getExternalNetwork", "dummy"),
     S("validateDedicatedExternalNetwork", ""),
     S("getProviderVDCId", "source"),
     S("getProviderVDCDetails", "source"),
     S("validateSourceNetworkPools", ""),
     S("validateOrgVDCNSXVbacked", ""),
     S("getProviderVDCId", "target"),
     S("getProviderVDCDetails", "target"),
     S("validateHardwareVersion", ""),
     S("validateTargetProviderVdc", "") >>

\* The calls of the try-block after disableOrgVDC, in declaration order.
PostSteps ==
  << S("validateVMPlacementPolicy", ""),
     S("validateStorageProfiles", ""),
     S("validateExternalNetworkSubnets", ""),
     S("getOrgVDCAffinityRules", ""),
     S("enableOrDisableSourceAffinityRules", "disable"),
     S("validateSingleEdgeGatewayExistForOrgVDC", ""),
     S("getOrgVDCNetworks", "sourceOrgVDCNetworks"),
     S("validateDHCPEnabledonIsolatedVdcNetworks", ""),
     S("validateOrgVDCNetworkShared", ""),
     S("validateOrgVDCNetworkDirect", ""),
     S("getEdgeGatewayServices", ""),
     S("validateIndependentDisksDoesNotExistsInOrgVDC", "") >>

\* Steps with disableOrgVDC called one step too early, before
\* validateTargetProviderVdc.
StepsDisableEarly ==
  SubSeq(PreSteps, 1, Len(PreSteps) - 1) \o << S("disableOrgVDC", "") >>
    \o << PreSteps[Len(PreSteps)] >> \o PostSteps

\* The calls of the try-block of preMigrationValidation in declaration order.
Steps == PreSteps \o << S("disableOrgVDC", "") >> \o PostSteps

NSteps == Len(Steps)

\* The calls made by getEdgeGatewayServices, in order.
SubOps ==
  << "getEdgeGatewayDhcpConfig", "getEdgeGatewayFirewallConfig",
     "getEdgeGatewayNatConfig", "getEdgeGatewayIpsecConfig",
     "getEdgegatewayBGPconfig", "getEdgeGatewayRoutingConfig",
     "getEdgeGatewayLoadBalancerConfig", "getEdgeGatewayL2VPNConfig",
     "getEdgeGatewaySSLVPNConfig", "getEdgeGatewayDnsConfig" >>

NSubOps == Len(SubOps)

\* Methods decorated with @_isSessionExpired.
Guarded ==
  { "validateOrgVDCFastProvisioned", "getExternalNetwork", "getProviderVDCId",
    "validateTargetProviderVdc", "disableOrgVDC", "validateVMPlacementPolicy",
    "validateStorageProfiles", "validateExternalNetworkSubnets",
    "getOrgVDCAffinityRules", "enableOrDisableSourceAffinityRules",
    "validateSingleEdgeGatewayExistForOrgVDC", "getOrgVDCNetworks",
    "validateDHCPEnabledonIsolatedVdcNetworks", "validateOrgVDCNetworkShared",
    "validateOrgVDCNetworkDirect", "getEdgeGatewayServices",
    "getEdgeGatewayDhcpConfig", "getEdgeGatewayFirewallConfig",
    "getEdgeGatewayNatConfig", "getEdgeGatewaySSLVPNConfig",
    "getEdgeGatewayL2VPNConfig", "getEdgeGatewayLoadBalancerConfig",
    "getEdgeGatewayRoutingConfig", "getEdgeGatewayIpsecConfig",
    "getEdgegatewayBGPconfig", "_checkTaskStatus", "getEdgeGatewayDnsConfig" }

\* Methods whose except-handler sets self.ENABLE_SOURCE_ORG_VDC = True.
SrcFlagOps ==
  { "validateVMPlacementPolicy", "validateStorageProfiles",
    "validateExternalNetworkSubnets", "getOrgVDCAffinityRules",
    "enableOrDisableSourceAffinityRules",
    "validateSingleEdgeGatewayExistForOrgVDC",
    "validateDHCPEnabledonIsolatedVdcNetworks", "validateOrgVDCNetworkShared",
    "validateOrgVDCNetworkDirect", "getEdgeGatewayServices",
    "validateIndependentDisksDoesNotExistsInOrgVDC" }

\* Methods whose except-handler sets
\* self.ENABLE_AFFINITY_RULES_IN_SOURCE_VAPP = True.
AffFlagOpsLater ==
  { "validateDHCPEnabledonIsolatedVdcNetworks", "validateOrgVDCNetworkShared",
    "validateOrgVDCNetworkDirect", "getEdgeGatewayServices",
    "validateIndependentDisksDoesNotExistsInOrgVDC" }

AffFlagOps ==
  { "validateSingleEdgeGatewayExistForOrgVDC",
    "validateDHCPEnabledonIsolatedVdcNetworks", "validateOrgVDCNetworkShared",
    "validateOrgVDCNetworkDirect", "getEdgeGatewayServices",
    "validateIndependentDisksDoesNotExistsInOrgVDC" }

\* ---------------------------------------------------------------- state
VARIABLES
  status,       \* "running" | "rollback" | "completed" | "failed"
  step,         \* number of steps of Steps that returned normally
  stack,        \* call stack of frames, innermost last
  rb,           \* position in the except-block of preMigrationValidation
  ENABLE_SOURCE_ORG_VDC,
  ENABLE_AFFINITY_RULES_IN_SOURCE_VAPP,
  VCD_SESSION_CREATED,
  bearerToken,  \* number of the token in self.headers, 0 before any login
  isNSXTbacked, \* local of preMigrationValidation set by getProviderVDCId
  dnsConfigDict,\* local of getEdgeGatewayServices: "none" | "forwarders"
  file,         \* apiOutput.json: "absent" | "json" | "corrupt" | "truncated"
  doc,          \* its content when it is JSON: function from keys to values
  \* the remote system
  validToken,   \* token of the live session, 0 when there is none
  issued,       \* tokens issued so far
  expiries,     \* sessions expired so far
  srcVdcEnabled,\* source org VDC is enabled
  ruleEnabled,  \* IsEnabled of each source affinity rule
  \* history of the run
  trace,        \* steps invoked by the try-block, in order
  comp,         \* compensating calls invoked by the except-block, in order
  origErr,      \* the error that ended the try-block
  raised,       \* the error that left preMigrationValidation
  written,      \* keys written to the document in this run
  rewritten,    \* keys written more than once in this run
  reads,        \* keys read from the document by the last body action
  lastReq,      \* the last remote request of a method: who sent it, probed?
  guard,        \* history of the innermost decorator call
  swallowed,    \* the last simple method returned normally on a non-OK answer
  runs,         \* calls of preMigrationValidation on the instance so far
  disabledByRun,\* disableOrgVDC got 204 for its disable request
  \* one call of _checkTaskStatus taken on its own
  pollPc,       \* "idle" | "entry" | "loop" | "returned" | "raised"
  taskName,     \* parameter: the expected operation name
  returnOutput, \* parameter
  timeout,      \* local: seconds slept so far
  output,       \* local: the identifier cut out of @operation
  responseDict, \* the task record of the last status fetch
  contentType,  \* self.headers holds a Content-Type entry
  fetches,      \* history: status fetches made by the call
  leading,      \* history: fetches from the first on that saw it running
  pollErr,      \* the exception that left the call
  \* one writer of apiOutput.json taken on its own, and an outside reader
  storePc,      \* "idle" | "load" | "open" | "dump" | "done" | "raised"
  todo,         \* the accesses to the file the writer still has to make
  data,         \* local: the document loaded and changed, to be dumped
  before,       \* history: the file and document the current access found
  seen,         \* what the outside reader last found in the file
  \* one validation taken on its own, applied to a payload
  chkOp,        \* the method
  chkIn,        \* the payload it is given
  chkOut,       \* Pending, then how the method ended
  chkAlt,       \* how it ends on the same payload in the other encoding
  \* one call of getOrgVDCComputePolicies taken on its own
  pagePc,       \* "idle", "entry", "loop", "returned", "raised"
  resultTotal,  \* the total the first response reported
  pageNo,       \* the page asked for next
  pageSizeCount,\* entries collected so far
  pageTick      \* parity of the number of requests sent

pollVars ==
  << pollPc, taskName, returnOutput, timeout, output, responseDict,
     contentType, fetches, leading, pollErr >>

storeVars == << storePc, todo, data, before, seen >>

checkVars == << chkOp, chkIn, chkOut, chkAlt >>

pageVars == << pagePc, resultTotal, pageNo, pageSizeCount, pageTick >>

mainVars ==
  << status, step, stack, rb, ENABLE_SOURCE_ORG_VDC,
     ENABLE_AFFINITY_RULES_IN_SOURCE_VAPP, VCD_SESSION_CREATED, bearerToken,
     isNSXTbacked, dnsConfigDict, file, doc, validToken, issued, expiries,
     srcVdcEnabled, ruleEnabled, trace, comp, origErr, raised, written,
     rewritten, reads, lastReq, guard, swallowed, disabledByRun, runs >>

vars == << mainVars, pollVars, storeVars, checkVars, pageVars >>

NoErr == [op |-> "none", kind |-> "none", at |-> "none"]
NoReq == [op |-> "none", probed |-> TRUE, token |-> 0, logins |-> 0]
NoGuard == [op |-> "none", probe |-> "none", logins |-> 0,
            loginFailed |-> FALSE, bodies |-> 0]

Keys ==
  { "Organization", "sourceOrgVDC", "sourceExternalNetwork",
    "targetExternalNetwork", "dummyExternalNetwork", "sourceProviderVDC",
    "targetProviderVDC", "sourceOrgVDCComputePolicyList",
    "sourceVMAffinityRules", "sourceEdgeGateway", "sourceOrgVDCNetworks",
    "sourceEdgeGatewayDHCP", "sourceEdgeGatewayFirewall",
    "sourceEdgeGatewayNAT", "sourceEdgeGatewayRouting",
    "sourceEdgeGatewayDNS" }

EmptyDoc == [k \in {} |-> 0]

\* A value as json.dump stores it: the run that wrote it and the fields the
\* pipeline later reads back.
Fact(run, isEnabled, rules) ==
  [run |-> run, IsEnabled |-> isEnabled, rules |-> rules]

\* The document an earlier run of the pipeline left behind.
StaleDoc == [k \in Keys |-> Fact("old", TRUE, [r \in Rules |-> TRUE])]

PutAlone(d, k, v) == (k :> v)
Put(d, k, v) == (k :> v) @@ d

\* ------------------------------------------------------------ initial state

\* No call of _checkTaskStatus is being followed.
PollIdle ==
  /\ pollPc = "idle"
  /\ taskName = << >>
  /\ returnOutput = FALSE
  /\ timeout = 0
  /\ output = << >>
  /\ responseDict = [code |-> "none"]
  /\ contentType = FALSE
  /\ fetches = 0
  /\ leading = 0
  /\ pollErr = [kind |-> "none"]

\* The instance after construction, before preMigrationValidation is called,
\* with the file f holding the document d and the remote facts e and r.
Constructed(f, d, e, r) ==
  /\ status = "running"
  /\ step = 0
  /\ stack = << >>
  /\ rb = 0
  /\ ENABLE_SOURCE_ORG_VDC = FALSE
  /\ ENABLE_AFFINITY_RULES_IN_SOURCE_VAPP = FALSE
  /\ VCD_SESSION_CREATED = FALSE
  /\ bearerToken = 0
  /\ isNSXTbacked = FALSE
  /\ dnsConfigDict = "none"
  /\ file = f
  /\ doc = d
  /\ validToken = 0
  /\ issued = 0
  /\ expiries = 0
  /\ srcVdcEnabled = e
  /\ ruleEnabled = r
  /\ trace = << >>
  /\ comp = << >>
  /\ origErr = NoErr
  /\ raised = NoErr
  /\ written = {}
  /\ rewritten = {}
  /\ reads = {}
  /\ lastReq = NoReq
  /\ guard = NoGuard
  /\ swallowed = FALSE
  /\ runs = 1
  /\ disabledByRun = FALSE

\* The files a run can find: none, one that is not JSON, or a JSON document,
\* empty or left by an earlier run.
Stores ==
  { << "absent", EmptyDoc >>, << "corrupt", EmptyDoc >>,
    << "json", EmptyDoc >>, << "json", StaleDoc >> }

\* What a reader finds in the file.
View(f, d) == IF f = "json" THEN [file |-> f, doc |-> d] ELSE [file |-> f]

\* No writer is being followed on its own and nobody has read the file.
StoreIdle ==
  /\ storePc = "idle"
  /\ todo = << >>
  /\ data = EmptyDoc
  /\ before = [file |-> "none"]
  /\ seen = [file |-> "none"]

\* How a method ends: normally, or with an exception; id is the identifier the
\* message of the exception names, 0 when it names none.  Pending: it has
\* not ended.
Pending == [raised |-> FALSE, error |-> "pending", id |-> 0]
Passed == [raised |-> FALSE, error |-> "none", id |-> 0]
Failure(e, id) == [raised |-> TRUE, error |-> e, id |-> id]
Ended(out) == out # Pending

\* No call of getOrgVDCComputePolicies is being followed.
PageIdle ==
  /\ pagePc = "idle"
  /\ resultTotal = 0
  /\ pageNo = 1
  /\ pageSizeCount = 0
  /\ pageTick = 0

\* No validation is being followed on its own.
CheckIdle ==
  /\ chkOp = "none"
  /\ chkIn = << >>
  /\ chkOut = Pending
  /\ chkAlt = Pending

\* Every affinity rule of the source org VDC is enabled.
AllEnabled == [r \in Rules |-> TRUE]

\* What the run of a new instance finds: the file, whether the source org VDC
\* is enabled, and which of its affinity rules are.  The file is varied over
\* an org VDC whose rules are all enabled, the rules over a first run, which
\* finds no file.
Starts ==
  { << st, e, AllEnabled >> : st \in Stores, e \in BOOLEAN }
    \cup { << << "absent", EmptyDoc >>, e, r >> :
              e \in BOOLEAN, r \in [Rules -> BOOLEAN] }

Init ==
  /\ \E s \in Starts : Constructed(s[1][1], s[1][2], s[2], s[3])
  /\ PollIdle
  /\ StoreIdle
  /\ CheckIdle
  /\ PageIdle

\* ------------------------------------------------------------- call stack
\* A call that enters the method at once, decorated or not.
FrameUnguarded(op, arg, rule, val) ==
  [op |-> op, arg |-> arg, phase |-> "body", probed |-> FALSE, i |-> 0,
   rule |-> rule, val |-> val]

\* A call: a decorated method starts in _isSessionExpired.inner.
Frame(op, arg, rule, val) ==
  [op |-> op, arg |-> arg,
   phase |-> IF op \in Guarded THEN "probe" ELSE "body",
   probed |-> FALSE, i |-> 0, rule |-> rule, val |-> val]

Top == stack[Len(stack)]
InBody(op) == stack # << >> /\ Top.op = op /\ Top.phase = "body"
ReplaceTop(f) == [stack EXCEPT ![Len(stack)] = f]

\* The remote system accepts the token carried by self.headers.
SessionValid == bearerToken # 0 /\ bearerToken = validToken

\* A request of the method on top of the stack, as the last request sent: it
\* carries self.headers, and logins counts the logins that succeeded before.
Req ==
  [op |-> Top.op, probed |-> Top.probed, token |-> bearerToken,
   logins |-> issued]

\* Every exception sets every flag.
HandledAlways(ops) == TRUE

\* Some frame being unwound is in the body of a method of the set, so the
\* except-handler of that method runs.
Handled(ops) ==
  \E n \in 1..Len(stack) : stack[n].phase = "body" /\ stack[n].op \in ops

\* A rollback flag after an exception passed: the handlers only ever assign
\* True, a method without handler leaves the flag as it is.
FlagAssigned(flag, handled) == handled
FlagAfter(flag, handled) == flag \/ handled

\* A driver that records the error of a step and goes on with the next step.
RaiseAndContinue(e) ==
  /\ ENABLE_SOURCE_ORG_VDC' =
       FlagAfter(ENABLE_SOURCE_ORG_VDC, Handled(SrcFlagOps))
  /\ ENABLE_AFFINITY_RULES_IN_SOURCE_VAPP' =
       FlagAfter(ENABLE_AFFINITY_RULES_IN_SOURCE_VAPP, Handled(AffFlagOps))
  /\ stack' = << >>
  /\ IF status = "running"
       THEN /\ status' = IF step + 1 = NSteps THEN "rollback" ELSE "running"
            /\ step' = step + 1
            /\ rb' = 1
            /\ origErr' = e
            /\ raised' = raised
       ELSE /\ status' = "failed"
            /\ step' = step
            /\ raised' = e
            /\ rb' = rb
            /\ origErr' = origErr

\* A driver without except-block: the exception of a step leaves
\* preMigrationValidation at once.
RaiseUnhandled(e) ==
  /\ ENABLE_SOURCE_ORG_VDC' =
       FlagAfter(ENABLE_SOURCE_ORG_VDC, Handled(SrcFlagOps))
  /\ ENABLE_AFFINITY_RULES_IN_SOURCE_VAPP' =
       FlagAfter(ENABLE_AFFINITY_RULES_IN_SOURCE_VAPP, Handled(AffFlagOps))
  /\ stack' = << >>
  /\ step' = step
  /\ status' = "failed"
  /\ raised' = e
  /\ rb' = rb
  /\ origErr' = IF status = "running" THEN e ELSE origErr

\* An exception e leaves the innermost frame: the handlers on the way set the
\* flags; in the try-block it reaches "except Exception as err", in the
\* except-block it leaves preMigrationValidation.
Raise(e) ==
  /\ ENABLE_SOURCE_ORG_VDC' =
       FlagAfter(ENABLE_SOURCE_ORG_VDC, Handled(SrcFlagOps))
  /\ ENABLE_AFFINITY_RULES_IN_SOURCE_VAPP' =
       FlagAfter(ENABLE_AFFINITY_RULES_IN_SOURCE_VAPP, Handled(AffFlagOps))
  /\ stack' = << >>
  /\ step' = step
  /\ IF status = "running"
       THEN /\ status' = "rollback"
            /\ rb' = 1
            /\ origErr' = e
            /\ raised' = raised
       ELSE /\ status' = "failed"
            /\ raised' = e
            /\ rb' = rb
            /\ origErr' = origErr

\* The error raised by the method on top of the stack, in the try-block or in
\* the except-block.
Err(kind) == [op |-> Top.op, kind |-> kind, at |-> status]

\* The innermost call returns normally to its caller.
Return ==
  /\ UNCHANGED << status, rb, origErr, raised, ENABLE_SOURCE_ORG_VDC,
                  ENABLE_AFFINITY_RULES_IN_SOURCE_VAPP >>
  /\ IF Len(stack) = 1
       THEN /\ stack' = << >>
            /\ step' = IF status = "running" THEN step + 1 ELSE step
       ELSE /\ step' = step
            /\ stack' = [SubSeq(stack, 1, Len(stack) - 1)
                           EXCEPT ![Len(stack) - 1].i = @ + 1]

\* The innermost call goes on in frame f.
Goto(f) ==
  /\ UNCHANGED << status, step, rb, origErr, raised, ENABLE_SOURCE_ORG_VDC,
                  ENABLE_AFFINITY_RULES_IN_SOURCE_VAPP >>
  /\ stack' = ReplaceTop(f)

\* The innermost call calls the method of frame f.
Call(f) ==
  /\ UNCHANGED << status, step, rb, origErr, raised, ENABLE_SOURCE_ORG_VDC,
                  ENABLE_AFFINITY_RULES_IN_SOURCE_VAPP >>
  /\ stack' = Append(stack, f)

sessVars == << VCD_SESSION_CREATED, bearerToken, validToken, issued >>
remoteVars == << srcVdcEnabled, ruleEnabled, disabledByRun >>
localVars == << isNSXTbacked, dnsConfigDict >>
docVars == << doc, written, rewritten, reads >>

\* ------------------------------------------------------------ the driver
\* The try-block calls its next step.
Invoke ==
  /\ UNCHANGED << pollVars, storeVars, checkVars, pageVars, file, swallowed,
                  runs >>
  /\ status = "running"
  /\ stack = << >>
  /\ step < NSteps
  /\ stack' = << Frame(Steps[step + 1].op, Steps[step + 1].arg, 0, FALSE) >>
  /\ trace' = Append(trace, Steps[step + 1])
  /\ UNCHANGED << status, step, rb, origErr, raised, ENABLE_SOURCE_ORG_VDC,
                  ENABLE_AFFINITY_RULES_IN_SOURCE_VAPP, sessVars, remoteVars,
                  localVars, docVars, expiries, comp, lastReq, guard >>

\* The return statement that ends the try-block.
ReturnResult ==
  /\ UNCHANGED << pollVars, storeVars, checkVars, pageVars, file, swallowed,
                  runs >>
  /\ status = "running"
  /\ stack = << >>
  /\ step = NSteps
  /\ status' = "completed"
  /\ UNCHANGED << step, stack, rb, origErr, raised, ENABLE_SOURCE_ORG_VDC,
                  ENABLE_AFFINITY_RULES_IN_SOURCE_VAPP, sessVars, remoteVars,
                  localVars, docVars, expiries, trace, comp, lastReq,
                  guard >>

\* Line 1385 has assigned the local sourceOrgVDCId.
SourceIdBound == \E n \in 1..step : Steps[n].op = "getOrgVDCDetails"

\* The UnboundLocalError of reading sourceOrgVDCId before its assignment.
Unbound ==
  [op |-> "preMigrationValidation", kind |-> "UnboundLocalError",
   at |-> "rollback"]

\* The except-block: the two flag tests with their compensating calls, whose
\* argument is the local sourceOrgVDCId, then the bare raise.
Rollback ==
  /\ UNCHANGED << pollVars, storeVars, checkVars, pageVars, file, swallowed,
                  runs >>
  /\ status = "rollback"
  /\ stack = << >>
  /\ UNCHANGED << step, origErr, ENABLE_SOURCE_ORG_VDC,
                  ENABLE_AFFINITY_RULES_IN_SOURCE_VAPP, sessVars, remoteVars,
                  localVars, docVars, expiries, trace, lastReq, guard >>
  /\ CASE rb = 1 /\ ENABLE_SOURCE_ORG_VDC /\ ~SourceIdBound ->
            /\ status' = "failed"
            /\ raised' = Unbound
            /\ UNCHANGED << rb, stack, comp >>
       [] rb = 1 /\ ~(ENABLE_SOURCE_ORG_VDC /\ ~SourceIdBound) ->
            /\ rb' = 2
            /\ status' = status
            /\ raised' = raised
            /\ IF ENABLE_SOURCE_ORG_VDC
                 THEN /\ stack' = << Frame("enableSourceOrgVdc", "", 0, FALSE) >>
                      /\ comp' = Append(comp, "enableSourceOrgVdc")
                 ELSE UNCHANGED << stack, comp >>
       [] rb = 2 /\ ENABLE_AFFINITY_RULES_IN_SOURCE_VAPP /\ ~SourceIdBound ->
            /\ status' = "failed"
            /\ raised' = Unbound
            /\ UNCHANGED << rb, stack, comp >>
       [] rb = 2 /\ ~(ENABLE_AFFINITY_RULES_IN_SOURCE_VAPP /\ ~SourceIdBound) ->
            /\ rb' = 3
            /\ status' = status
            /\ raised' = raised
            /\ IF ENABLE_AFFINITY_RULES_IN_SOURCE_VAPP
                 THEN /\ stack' = << Frame("enableOrDisableSourceAffinityRules",
                                           "enable", 0, FALSE) >>
                      /\ comp' = Append(comp,
                                        "enableOrDisableSourceAffinityRules")
                 ELSE UNCHANGED << stack, comp >>
       [] OTHER ->
            /\ status' = "failed"
            /\ raised' = origErr
            /\ UNCHANGED << rb, stack, comp >>

\* ------------------------------------------------------- the session guard
\* A guard that logs in on every call.
NeedsLoginAlways(probeOk) == TRUE

\* _isSessionExpired.inner, line 42: the guard logs in when the probe's status
\* is not OK.
NeedsLogin(probeOk) == ~probeOk

\* _isSessionExpired.inner: the probe request and the test of its status.
Probe ==
  /\ UNCHANGED << pollVars, storeVars, checkVars, pageVars, file, swallowed,
                  runs >>
  /\ stack # << >>
  /\ Top.phase = "probe"
  /\ LET ok == SessionValid
         login == NeedsLogin(ok)
     IN /\ Goto([Top EXCEPT !.phase = IF login THEN "login" ELSE "body",
                            !.probed = TRUE])
        /\ guard' = [op |-> Top.op, probe |-> IF ok THEN "ok" ELSE "bad",
                     logins |-> 0, loginFailed |-> FALSE,
                     bodies |-> IF login THEN 0 ELSE 1]
  /\ UNCHANGED << sessVars, remoteVars, localVars, docVars, expiries,
                  trace, comp, lastReq >>

\* A login that leaves the headers of the earlier session in place.
HeadersKept(old, new) == old

\* vcdLogin, lines 78-80: the token of the response replaces self.bearerToken
\* and self.headers.
HeadersAfter(old, new) == new

\* A vcdLogin that returns normally whatever the login response is.
LoginNeverRaises(ok) == FALSE

\* vcdLogin, lines 75-83: it raises unless the login response is OK.
LoginRaises(ok) == ~ok

\* vcdLogin, called by step 1 of the try-block or by the guard.
vcdLogin ==
  /\ UNCHANGED << pollVars, storeVars, checkVars, pageVars, file, swallowed,
                  runs >>
  /\ stack # << >>
  /\ \/ Top.phase = "login"
     \/ InBody("vcdLogin")
  /\ \E ok \in BOOLEAN :
       /\ IF ok
            THEN /\ issued' = issued + 1
                 /\ validToken' = issued + 1
                 /\ bearerToken' = HeadersAfter(bearerToken, issued + 1)
                 /\ VCD_SESSION_CREATED' = TRUE
            ELSE UNCHANGED sessVars
       /\ IF LoginRaises(ok)
            THEN /\ Raise([op |-> "vcdLogin", kind |-> Top.op, at |-> status])
                 /\ guard' = IF Top.phase = "login"
                               THEN [guard EXCEPT !.logins = @ + 1,
                                                  !.loginFailed = ~ok]
                               ELSE guard
            ELSE IF Top.phase = "login"
                   THEN /\ Goto([Top EXCEPT !.phase = "body"])
                        /\ guard' = [guard EXCEPT !.logins = @ + 1,
                                                  !.loginFailed = ~ok,
                                                  !.bodies = @ + 1]
                   ELSE /\ Return
                        /\ guard' = guard
  /\ UNCHANGED << remoteVars, localVars, docVars, expiries, trace, comp,
                  lastReq >>

\* The remote system expires the session.
Expire ==
  /\ UNCHANGED << pollVars, storeVars, checkVars, pageVars, file, swallowed,
                  runs >>
  /\ status \in {"running", "rollback"}
  /\ validToken # 0
  /\ expiries < MaxExpiry
  /\ validToken' = 0
  /\ expiries' = expiries + 1
  /\ UNCHANGED << status, step, stack, rb, origErr, raised,
                  ENABLE_SOURCE_ORG_VDC, ENABLE_AFFINITY_RULES_IN_SOURCE_VAPP,
                  VCD_SESSION_CREATED, bearerToken, issued, remoteVars,
                  localVars, docVars, trace, comp, lastReq, guard >>

\* ------------------------------------------------------------ method bodies
\* Keys a method reads from the document before it sends its request, in the
\* order of the subscripts data[...] in its body.
ReadSeq(op) ==
  CASE op = "validateNoTargetOrgVDCExists" -> << "Organization" >>
    [] op \in { "validateNoEmptyVappsExistInSourceOrgVDC",
                "validateSourceSuspendedVMsInVapp",
                "validateNoVappNetworksExist",
                "validateOrgVDCFastProvisioned",
                "validateSourceNetworkPools",
                "validateOrgVDCNSXVbacked" } -> << "sourceOrgVDC" >>
    [] op = "validateDedicatedExternalNetwork" -> << "targetExternalNetwork" >>
    [] op = "validateHardwareVersion" ->
         << "sourceProviderVDC", "targetProviderVDC" >>
    [] op = "validateTargetProviderVdc" -> << "targetProviderVDC" >>
    [] op = "validateStorageProfiles" ->
         << "sourceOrgVDC", "targetProviderVDC" >>
    [] op = "validateExternalNetworkSubnets" ->
         << "sourceExternalNetwork", "targetExternalNetwork" >>
    [] OTHER -> << >>

\* The subscripts evaluated on document d: all of them, or those up to the
\* first key that is missing (a KeyError).
ReadsDone(seq, d) ==
  { seq[n] : n \in { m \in 1..Len(seq) :
                       \A j \in 1..(m - 1) : seq[j] \in DOMAIN d } }

KeyError(seq, d) == \E n \in 1..Len(seq) : seq[n] \notin DOMAIN d

\* Methods whose body sends a request with self.restClientObj.
Remote ==
  { "getOrgUrl", "validateNoEmptyVappsExistInSourceOrgVDC",
    "validateSourceSuspendedVMsInVapp", "validateNoVappNetworksExist",
    "getExternalNetwork", "validateDedicatedExternalNetwork",
    "getProviderVDCId", "getProviderVDCDetails", "validateSourceNetworkPools",
    "getOrgVDCAffinityRules", "validateSingleEdgeGatewayExistForOrgVDC",
    "getOrgVDCNetworks", "validateDHCPEnabledonIsolatedVdcNetworks",
    "validateIndependentDisksDoesNotExistsInOrgVDC",
    "getEdgeGatewayDhcpConfig", "getEdgeGatewayFirewallConfig",
    "getEdgeGatewayNatConfig", "getEdgeGatewayIpsecConfig",
    "getEdgegatewayBGPconfig", "getEdgeGatewayRoutingConfig",
    "getEdgeGatewayLoadBalancerConfig", "getEdgeGatewayL2VPNConfig",
    "getEdgeGatewaySSLVPNConfig" }

\* Methods that return normally when their response is not OK.
Swallows ==
  { "getEdgeGatewayRoutingConfig", "getEdgeGatewayLoadBalancerConfig",
    "getEdgeGatewayL2VPNConfig", "getEdgeGatewaySSLVPNConfig" }

\* Methods that raise on what the document or an OK response says.
CanReject ==
  { "getOrgUrl", "validateNoTargetOrgVDCExists",
    "validateNoEmptyVappsExistInSourceOrgVDC",
    "validateSourceSuspendedVMsInVapp", "validateNoVappNetworksExist",
    "validateOrgVDCFastProvisioned", "getExternalNetwork",
    "validateDedicatedExternalNetwork", "getProviderVDCId",
    "validateSourceNetworkPools", "validateOrgVDCNSXVbacked",
    "validateHardwareVersion", "validateTargetProviderVdc",
    "validateStorageProfiles", "validateExternalNetworkSubnets",
    "validateSingleEdgeGatewayExistForOrgVDC",
    "validateDHCPEnabledonIsolatedVdcNetworks", "validateOrgVDCNetworkShared",
    "validateOrgVDCNetworkDirect",
    "validateIndependentDisksDoesNotExistsInOrgVDC",
    "getEdgeGatewayDhcpConfig", "getEdgeGatewayFirewallConfig",
    "getEdgeGatewayNatConfig", "getEdgeGatewayIpsecConfig",
    "getEdgeGatewayRoutingConfig", "getEdgeGatewayLoadBalancerConfig",
    "getEdgeGatewayL2VPNConfig", "getEdgeGatewaySSLVPNConfig" }

\* getExternalNetwork, lines 233-238: the key follows the backing type the
\* response reports for the network found, unless the network is the dummy one.
ExternalNetworkKey(arg, nsxt) ==
  LET key == IF nsxt THEN "targetExternalNetwork" ELSE "sourceExternalNetwork"
  IN IF arg = "dummy" THEN "dummyExternalNetwork" ELSE key

\* getProviderVDCDetails, line 296.
ProviderVDCKey(nsxt) == IF nsxt THEN "targetProviderVDC" ELSE "sourceProviderVDC"

\* The key a method stores its fact under, "" when it stores none.
WriteKey(op, arg, nsxt) ==
  CASE op = "getExternalNetwork" -> ExternalNetworkKey(arg, nsxt)
    [] op = "getProviderVDCDetails" -> ProviderVDCKey(isNSXTbacked)
    [] op = "getOrgVDCAffinityRules" -> "sourceVMAffinityRules"
    [] op = "validateSingleEdgeGatewayExistForOrgVDC" -> "sourceEdgeGateway"
    [] op = "getOrgVDCNetworks" -> arg
    [] OTHER -> ""

\* The methods modelled by the action Body.
SimpleOps ==
  ({ Steps[n].op : n \in 1..NSteps } \cup { SubOps[n] : n \in 1..NSubOps })
    \ { "vcdLogin", "getOrgVDCDetails", "disableOrgVDC",
        "validateVMPlacementPolicy", "enableOrDisableSourceAffinityRules",
        "getEdgeGatewayServices", "getEdgeGatewayDnsConfig" }

\* The fact as the remote system reports it now.
NewFact == Fact("this", srcVdcEnabled, ruleEnabled)

\* The methods whose response reports a backing type that the code acts on.
ReportsBacking == { "getExternalNetwork", "getProviderVDCId" }

\* A method whose body is: read the document, send the request, check the
\* answer, store the fact.  resp is the status of its response, valid says
\* that the content passes the method's checks, nsxt that the response
\* reports an NSX-T backing (backingType NSXT_TIER0, nsxTManager).
Body ==
  /\ UNCHANGED << pollVars, storeVars, checkVars, pageVars, file, runs >>
  /\ stack # << >>
  /\ Top.phase = "body"
  /\ Top.op \in SimpleOps
  /\ \E resp \in {"ok", "bad"}, valid \in BOOLEAN, nsxt \in BOOLEAN :
       LET op == Top.op
           seq == ReadSeq(op)
           sends == op \in Remote /\ ~KeyError(seq, doc)
           nsxv == op = "validateOrgVDCNSXVbacked" => ~isNSXTbacked
           fails == \/ KeyError(seq, doc)
                    \/ resp = "bad" /\ op \notin Swallows
                    \/ resp = "ok" /\ ~valid
                    \/ ~nsxv
           key == WriteKey(op, Top.arg, nsxt)
       IN /\ sends /\ ~SessionValid => resp = "bad"
          /\ op \notin ReportsBacking \/ resp = "bad" => ~nsxt
          /\ ~sends => resp = "ok"
          /\ op \notin CanReject \/ resp = "bad" => valid
          /\ reads' = ReadsDone(seq, doc)
          /\ lastReq' = IF sends THEN Req ELSE lastReq
          /\ swallowed' = (sends /\ resp = "bad" /\ ~fails)
          /\ isNSXTbacked' =
               IF op = "getProviderVDCId" /\ ~fails
                 THEN nsxt
                 ELSE isNSXTbacked
          /\ IF fails
               THEN /\ Raise(Err("body"))
                    /\ UNCHANGED << doc, written, rewritten >>
               ELSE /\ Return
                    /\ IF key # "" /\ resp = "ok"
                         THEN /\ doc' = Put(doc, key, NewFact)
                              /\ written' = written \cup {key}
                              /\ rewritten' = rewritten \cup ({key} \cap written)
                         ELSE UNCHANGED << doc, written, rewritten >>
  /\ UNCHANGED << sessVars, remoteVars, dnsConfigDict, expiries, trace,
                  comp, guard >>

\* json.load raises on a file that does not hold a JSON document.
UnreadableNever(f) == FALSE
Unreadable(f) == f \in {"corrupt", "truncated"}

\* getOrgVDCDetails with the getOrgVDCUrl it calls: getOrgVDCUrl loads the
\* file when it exists and stores the organization only when it found no
\* data; then the org VDC is stored under orgVDCType.
getOrgVDCDetails ==
  /\ UNCHANGED << pollVars, storeVars, checkVars, pageVars, swallowed, runs >>
  /\ InBody("getOrgVDCDetails")
  /\ \E resp1 \in {"ok", "bad"}, resp2 \in {"ok", "bad"}, found \in BOOLEAN :
       LET unread == Unreadable(file)
           empty == file = "absent" \/ doc = EmptyDoc
           d1 == IF empty THEN Put(EmptyDoc, "Organization", NewFact) ELSE doc
           w1 == IF empty THEN written \cup {"Organization"} ELSE written
           r1 == IF empty THEN rewritten \cup ({"Organization"} \cap written)
                          ELSE rewritten
       IN /\ ~SessionValid => resp1 = "bad"
          /\ resp1 = "bad" \/ unread => found /\ resp2 = "ok"
          /\ ~found => resp2 = "ok"
          /\ lastReq' = Req
          /\ reads' = {}
          /\ IF resp1 = "bad"
               THEN /\ Raise(Err("body"))
                    /\ UNCHANGED << file, doc, written, rewritten >>
               ELSE IF unread
                      THEN /\ Raise(Err("json"))
                           /\ UNCHANGED << file, doc, written, rewritten >>
                      ELSE /\ file' = "json"
                           /\ IF ~found \/ resp2 = "bad"
                                THEN /\ Raise(Err("body"))
                                     /\ doc' = d1
                                     /\ written' = w1
                                     /\ rewritten' = r1
                                ELSE /\ Return
                                     /\ doc' = Put(d1, Top.arg, NewFact)
                                     /\ written' = w1 \cup {Top.arg}
                                     /\ rewritten' = r1 \cup ({Top.arg} \cap w1)
  /\ UNCHANGED << sessVars, remoteVars, localVars, expiries, trace, comp,
                  guard >>

\* A pipeline that takes the source org VDC for enabled whatever is recorded.
WasEnabledAssumed(d) == TRUE

\* Lines 362 and 375, line 1228: data['sourceOrgVDC']['IsEnabled'] is not
\* "false", is "true".
WasEnabled(d) == d["sourceOrgVDC"].IsEnabled

\* disableOrgVDC(orgVDCId) with isSourceDisable=True.
disableOrgVDC ==
  /\ UNCHANGED << pollVars, storeVars, checkVars, pageVars, file, swallowed,
                  runs >>
  /\ InBody("disableOrgVDC")
  /\ \E resp \in {"ok", "bad"} :
       LET missing == "sourceOrgVDC" \notin DOMAIN doc
           posts == ~missing /\ WasEnabled(doc)
       IN /\ posts /\ ~SessionValid => resp = "bad"
          /\ ~posts => resp = "ok"
          /\ reads' = {"sourceOrgVDC"}
          /\ lastReq' = IF posts THEN Req ELSE lastReq
          /\ IF missing \/ resp = "bad"
               THEN /\ Raise(Err("body"))
                    /\ UNCHANGED remoteVars
               ELSE /\ Return
                    /\ srcVdcEnabled' = IF posts THEN FALSE ELSE srcVdcEnabled
                    /\ disabledByRun' = (disabledByRun \/ posts)
                    /\ UNCHANGED ruleEnabled
  /\ UNCHANGED << sessVars, localVars, doc, written, rewritten, expiries, trace,
                  comp, guard >>

\* enableSourceOrgVdc, the first compensating call.
enableSourceOrgVdc ==
  /\ UNCHANGED << pollVars, storeVars, checkVars, pageVars, file, swallowed,
                  runs >>
  /\ InBody("enableSourceOrgVdc")
  /\ \E resp \in {"ok", "bad"} :
       LET missing == "sourceOrgVDC" \notin DOMAIN doc
           posts == ~missing /\ WasEnabled(doc)
       IN /\ posts /\ ~SessionValid => resp = "bad"
          /\ ~posts => resp = "ok"
          /\ reads' = {"sourceOrgVDC"}
          /\ lastReq' = IF posts THEN Req ELSE lastReq
          /\ IF missing \/ resp = "bad"
               THEN /\ Raise(Err("body"))
                    /\ UNCHANGED remoteVars
               ELSE /\ Return
                    /\ srcVdcEnabled' = IF posts THEN TRUE ELSE srcVdcEnabled
                    /\ UNCHANGED << ruleEnabled, disabledByRun >>
  /\ UNCHANGED << sessVars, localVars, doc, written, rewritten, expiries, trace,
                  comp, guard >>

\* validateVMPlacementPolicy with the getOrgVDCComputePolicies it calls: the
\* policy list is stored when its response is OK, the keys are read from the
\* document after that.
validateVMPlacementPolicy ==
  /\ UNCHANGED << pollVars, storeVars, checkVars, pageVars, file, swallowed,
                  runs >>
  /\ InBody("validateVMPlacementPolicy")
  /\ \E resp1 \in {"ok", "bad"}, resp2 \in {"ok", "bad"}, valid \in BOOLEAN :
       LET d1 == IF resp1 = "ok"
                   THEN Put(doc, "sourceOrgVDCComputePolicyList", NewFact)
                   ELSE doc
           seq == << "sourceOrgVDC", "targetProviderVDC",
                     "sourceOrgVDCComputePolicyList" >>
           fails == KeyError(seq, d1) \/ resp2 = "bad" \/ ~valid
       IN /\ ~SessionValid => resp1 = "bad" /\ resp2 = "bad"
          /\ KeyError(seq, d1) => resp2 = "ok"
          /\ KeyError(seq, d1) \/ resp2 = "bad" => valid
          /\ doc' = d1
          /\ written' = IF resp1 = "ok"
                          THEN written \cup {"sourceOrgVDCComputePolicyList"}
                          ELSE written
          /\ rewritten' =
               IF resp1 = "ok"
                 THEN rewritten
                        \cup ({"sourceOrgVDCComputePolicyList"} \cap written)
                 ELSE rewritten
          /\ reads' = ReadsDone(seq, d1)
          /\ lastReq' = Req
          /\ IF fails THEN Raise(Err("body")) ELSE Return
  /\ UNCHANGED << sessVars, remoteVars, localVars, expiries, trace, comp,
                  guard >>

\* A payload that asks for every rule to be enabled when enable is set.
IsEnabledAlways(enable, recorded) == enable

\* Lines 589-593, the IsEnabled element of the payload: "false" to disable,
\* the recorded value of the rule to enable.
IsEnabledText(enable, recorded) == IF enable THEN recorded ELSE FALSE

\* enableOrDisableSourceAffinityRules: one PUT per rule recorded in the
\* document, each followed by _checkTaskStatus.
enableOrDisableSourceAffinityRules ==
  /\ UNCHANGED << pollVars, storeVars, checkVars, pageVars, file, swallowed,
                  runs >>
  /\ InBody("enableOrDisableSourceAffinityRules")
  /\ \E resp \in {"ok", "bad"} :
       LET missing == "sourceVMAffinityRules" \notin DOMAIN doc
           done == ~missing /\ Top.i = MaxRules
           rule == Top.i + 1
           val == IsEnabledText(Top.arg = "enable",
                                doc["sourceVMAffinityRules"].rules[rule])
           puts == ~missing /\ ~done
       IN /\ puts /\ ~SessionValid => resp = "bad"
          /\ ~puts => resp = "ok"
          /\ reads' = IF Top.i = 0 THEN {"sourceVMAffinityRules"} ELSE {}
          /\ lastReq' = IF puts THEN Req ELSE lastReq
          /\ IF missing \/ resp = "bad"
               THEN Raise(Err("body"))
               ELSE IF done
                      THEN Return
                      ELSE Call(Frame("_checkTaskStatus", Top.arg, rule, val))
  /\ UNCHANGED << sessVars, remoteVars, localVars, doc, written,
                  rewritten, expiries, trace, comp, guard >>

\* _checkTaskStatus: the task ends in success or error, or the polls run out.
\* The rule takes its new value when the task succeeds.
checkTaskStatus ==
  /\ UNCHANGED << pollVars, storeVars, checkVars, pageVars, file, swallowed,
                  runs >>
  /\ InBody("_checkTaskStatus")
  /\ \E outcome \in {"success", "error", "timeout"} :
       /\ ~SessionValid => outcome = "timeout"
       /\ lastReq' = Req
       /\ IF outcome = "success"
            THEN /\ Return
                 /\ ruleEnabled' = [ruleEnabled EXCEPT ![Top.rule] = Top.val]
            ELSE /\ Raise(Err(outcome))
                 /\ UNCHANGED ruleEnabled
  /\ UNCHANGED << sessVars, srcVdcEnabled, disabledByRun, localVars, docVars,
                  expiries, trace, comp, guard >>

\* getEdgeGatewayDnsConfig: no DNS configuration when the gateway does not
\* use the default route for DNS relay, else the forwarders or an error.
getEdgeGatewayDnsConfig ==
  /\ UNCHANGED << pollVars, storeVars, checkVars, pageVars, file, swallowed,
                  runs >>
  /\ InBody("getEdgeGatewayDnsConfig")
  /\ \E resp1 \in {"ok", "bad"}, relay \in BOOLEAN,
        resp2 \in {"ok", "bad"}, views \in BOOLEAN :
       LET early == resp1 = "ok" /\ ~relay
       IN /\ ~SessionValid => resp1 = "bad" /\ resp2 = "bad"
          /\ resp1 = "bad" => relay
          /\ early => resp2 = "ok" /\ views
          /\ resp2 = "bad" => views
          /\ lastReq' = Req
          /\ IF early
               THEN Return /\ dnsConfigDict' = "none"
               ELSE IF resp2 = "ok" /\ views
                      THEN Return /\ dnsConfigDict' = "forwarders"
                      ELSE Raise(Err("body")) /\ UNCHANGED dnsConfigDict
  /\ UNCHANGED << sessVars, remoteVars, isNSXTbacked, docVars, expiries,
                  trace, comp, guard >>

\* Keys stored by getEdgeGatewayServices, lines 801-806.
ServiceKeys(dns) ==
  { "sourceEdgeGatewayDHCP", "sourceEdgeGatewayFirewall",
    "sourceEdgeGatewayNAT", "sourceEdgeGatewayRouting" }
    \cup (IF dns = "forwarders" THEN {"sourceEdgeGatewayDNS"} ELSE {})

\* getEdgeGatewayServices: the ten configuration getters in order, then the
\* one write of their results.
getEdgeGatewayServices ==
  /\ UNCHANGED << pollVars, storeVars, checkVars, pageVars, file, swallowed,
                  runs >>
  /\ InBody("getEdgeGatewayServices")
  /\ IF Top.i < NSubOps
       THEN /\ Call(Frame(SubOps[Top.i + 1], "", 0, FALSE))
            /\ UNCHANGED << doc, written, rewritten >>
       ELSE /\ Return
            /\ doc' = [k \in DOMAIN doc \cup ServiceKeys(dnsConfigDict) |->
                         IF k \in ServiceKeys(dnsConfigDict)
                           THEN NewFact ELSE doc[k]]
            /\ written' = written \cup ServiceKeys(dnsConfigDict)
            /\ rewritten' = rewritten \cup (ServiceKeys(dnsConfigDict) \cap written)
  /\ reads' = {}
  /\ UNCHANGED << sessVars, remoteVars, localVars, expiries, trace, comp,
                  lastReq, guard >>

\* ------------------------------------------------------------ specification
Next ==
  \/ Invoke
  \/ ReturnResult
  \/ Rollback
  \/ Probe
  \/ vcdLogin
  \/ Expire
  \/ Body
  \/ getOrgVDCDetails
  \/ disableOrgVDC
  \/ enableSourceOrgVdc
  \/ validateVMPlacementPolicy
  \/ enableOrDisableSourceAffinityRules
  \/ checkTaskStatus
  \/ getEdgeGatewayDnsConfig
  \/ getEdgeGatewayServices

Spec == Init /\ [][Next]_vars

\* ------------------------------------------------- a second run, same instance
\* The caller calls preMigrationValidation again on the instance whose run
\* failed.  The method assigns neither flag at its start (lines 1377-1378);
\* the attributes of the instance, the file and the remote system stay as
\* the failed run left them.
MaxRuns == 2

Rerun ==
  /\ status = "failed"
  /\ runs < MaxRuns
  /\ runs' = runs + 1
  /\ status' = "running"
  /\ step' = 0
  /\ stack' = << >>
  /\ rb' = 0
  /\ trace' = << >>
  /\ comp' = << >>
  /\ origErr' = NoErr
  /\ raised' = NoErr
  /\ written' = {}
  /\ rewritten' = {}
  /\ reads' = {}
  /\ lastReq' = NoReq
  /\ guard' = NoGuard
  /\ swallowed' = FALSE
  /\ disabledByRun' = FALSE
  /\ UNCHANGED << ENABLE_SOURCE_ORG_VDC, ENABLE_AFFINITY_RULES_IN_SOURCE_VAPP,
                  VCD_SESSION_CREATED, bearerToken, isNSXTbacked,
                  dnsConfigDict, file, doc, validToken, issued, expiries,
                  srcVdcEnabled, ruleEnabled, pollVars, storeVars, checkVars, pageVars >>

RerunNext ==
  \/ Next
  \/ Rerun

\* The instance after construction, no apiOutput.json yet, the source org VDC
\* and its affinity rules enabled.
RerunInit ==
  /\ Constructed("absent", EmptyDoc, TRUE, [r \in Rules |-> TRUE])
  /\ PollIdle
  /\ StoreIdle
  /\ CheckIdle
  /\ PageIdle

RerunSpec == RerunInit /\ [][RerunNext]_vars

TypeOK ==
  /\ status \in {"running", "rollback", "completed", "failed"}
  /\ step \in 0..NSteps
  /\ Len(stack) <= 2
  /\ rb \in 0..3
  /\ DOMAIN doc \subseteq Keys
  /\ written \subseteq DOMAIN doc

\* ------------------------------------------------- _checkTaskStatus alone
\* One call of _checkTaskStatus followed poll by poll.  The values of
\* vcdConstants.VCD_CREATION_TIMEOUT and VCD_CREATION_INTERVAL are set outside
\* this file; the model takes small ones.
VCD_CREATION_TIMEOUT == 5
VCD_CREATION_INTERVAL == 1

MaxName == 2
Letters == {"a", "b"}

\* Operation names: strings as sequences of letters.
Names == UNION { [1..n -> Letters] : n \in 0..MaxName }

\* Python's  t in s  on strings.
Contains(t, s) ==
  \E k \in 0..Len(s) :
    /\ k + Len(t) <= Len(s)
    /\ \A j \in 1..Len(t) : s[k + j] = t[j]

\* Python's s.rfind(c): the last 0-based position of c in s, -1 when absent.
RFind(s, c) ==
  LET at == { k \in 1..Len(s) : s[k] = c }
  IN IF at = {} THEN -1 ELSE (CHOOSE k \in at : \A m \in at : m <= k) - 1

\* Python's s[a:b] for a >= 0, b counted from the end when negative.
Slice(s, a, b) ==
  LET e == IF b < 0 THEN Len(s) + b ELSE b
      hi == IF e > Len(s) THEN Len(s) ELSE e
  IN IF hi <= a THEN << >> ELSE SubSeq(s, a + 1, hi)

\* Line 1162: output[output.rfind("(") + 1:output.rfind(")")].
CutId(operation) == Slice(operation, RFind(operation, "(") + 1, RFind(operation, ")"))

Operations == { << "t", "(", "i", ")" >>, << "t" >> }
Statuses == {"queued", "running", "success", "error"}

\* What one status fetch can bring: a non-OK response, an OK response whose
\* content has no Task element, or a task record.  Details is "" when the
\* record has no Details element.
Responses ==
  { [code |-> "bad"], [code |-> "ok", Task |-> FALSE] }
    \cup [code : {"ok"}, Task : {TRUE}, operationName : Names,
          status : Statuses, Details : {"", "d"}, operation : Operations]

IsRecord(r) == r.code = "ok" /\ r.Task

\* Line 1163 and the tests on @status below it.
MatchesAny(r, name) == TRUE
Matches(r, name) == Contains(name, r.operationName)
Succeeded(r, name) == IsRecord(r) /\ Matches(r, name) /\ r.status = "success"
FailedNever(r, name) == FALSE
Failed(r, name) == IsRecord(r) /\ Matches(r, name) /\ r.status = "error"
Running(r, name) == IsRecord(r) /\ Matches(r, name) /\ r.status = "running"

PollInit ==
  /\ Constructed("json", EmptyDoc, TRUE, [r \in Rules |-> TRUE])
  /\ pollPc = "entry"
  /\ taskName \in Names
  /\ returnOutput \in BOOLEAN
  /\ timeout = 0
  /\ output = << >>
  /\ responseDict = [code |-> "none"]
  /\ contentType \in BOOLEAN
  /\ fetches = 0
  /\ leading = 0
  /\ pollErr = [kind |-> "none"]
  /\ StoreIdle
  /\ CheckIdle
  /\ PageIdle

\* Lines 1147-1151: drop the Content-Type header, timeout = 0.0, output = ''.
PollEnter ==
  /\ pollPc = "entry"
  /\ pollPc' = "loop"
  /\ contentType' = FALSE
  /\ timeout' = 0
  /\ output' = << >>
  /\ UNCHANGED << mainVars, storeVars, checkVars, pageVars, taskName, returnOutput, responseDict,
                  fetches,
                  leading, pollErr >>

\* Line 1153, the loop test negated.
ExpiredEarly(t) == t + VCD_CREATION_INTERVAL >= VCD_CREATION_TIMEOUT
Expired(t) == t >= VCD_CREATION_TIMEOUT

\* Lines 1174-1175: time.sleep and timeout += VCD_CREATION_INTERVAL.
SleptNot(t) == t
Slept(t) == t + VCD_CREATION_INTERVAL

\* Lines 1153-1175, one turn of the loop: fetch the task, test it, sleep.
PollOnce ==
  /\ pollPc = "loop"
  /\ ~Expired(timeout)
  /\ \E r \in Responses :
       /\ responseDict' = r
       /\ fetches' = fetches + 1
       /\ leading' = IF leading = fetches /\ Running(r, taskName)
                       THEN leading + 1 ELSE leading
       /\ output' = IF IsRecord(r) /\ returnOutput
                      THEN CutId(r.operation) ELSE output
       /\ CASE r.code = "ok" /\ ~r.Task ->
                 /\ pollPc' = "raised"
                 /\ pollErr' = [kind |-> "KeyError", text |-> "Task"]
                 /\ UNCHANGED timeout
            [] Succeeded(r, taskName) ->
                 /\ pollPc' = "returned"
                 /\ UNCHANGED << pollErr, timeout >>
            [] Failed(r, taskName) ->
                 /\ pollPc' = "raised"
                 /\ pollErr' = IF r.Details = ""
                                 THEN [kind |-> "KeyError", text |-> "Details"]
                                 ELSE [kind |-> "task", text |-> r.Details]
                 /\ UNCHANGED timeout
            [] OTHER ->
                 /\ timeout' = Slept(timeout)
                 /\ UNCHANGED << pollPc, pollErr >>
  /\ UNCHANGED << mainVars, storeVars, checkVars, pageVars, taskName, returnOutput, contentType >>

\* Line 1176: the loop ran out.
PollExpired ==
  /\ pollPc = "loop"
  /\ Expired(timeout)
  /\ pollPc' = "raised"
  /\ pollErr' = [kind |-> "timeout", text |-> taskName]
  /\ UNCHANGED << mainVars, storeVars, checkVars, pageVars, taskName, returnOutput, timeout, output,
                  responseDict, contentType, fetches, leading >>

PollNext ==
  \/ PollEnter
  \/ PollOnce
  \/ PollExpired

PollSpec == PollInit /\ [][PollNext]_vars

\* --------------------------------------------- one writer of apiOutput.json
\* One method that stores facts, taken on its own with every request of it
\* answered OK, followed file operation by file operation, next to a reader
\* outside the program that opens the file at any moment.

\* The state of the instance other than the file.
runVars ==
  << status, step, stack, rb, ENABLE_SOURCE_ORG_VDC,
     ENABLE_AFFINITY_RULES_IN_SOURCE_VAPP, VCD_SESSION_CREATED, bearerToken,
     isNSXTbacked, dnsConfigDict, validToken, issued, expiries, srcVdcEnabled,
     ruleEnabled, trace, comp, origErr, raised, written, rewritten, reads,
     lastReq, guard, swallowed, disabledByRun, runs >>

\* kind "create" is the access of getOrgVDCUrl, lines 137-146; kind "update"
\* is the load, assign, dump of every other writer.
Access(kind, keys) == [kind |-> kind, keys |-> keys]

\* The accesses each storing method makes, in order.
Writers ==
  { << Access("create", {"Organization"}) >>,
    << Access("create", {"Organization"}), Access("update", {"sourceOrgVDC"}) >>,
    << Access("update", {"sourceOrgVDCComputePolicyList"}) >>,
    << Access("update", {"sourceVMAffinityRules"}) >>,
    << Access("update", {"sourceEdgeGateway"}) >>,
    << Access("update", {"sourceOrgVDCNetworks"}) >>,
    << Access("update", ServiceKeys("none")) >>,
    << Access("update", ServiceKeys("forwarders")) >> }
    \cup { << Access("update", {ExternalNetworkKey(a, n)}) >> :
             a \in {"source", "dummy"}, n \in BOOLEAN }
    \cup { << Access("update", {ProviderVDCKey(n)}) >> : n \in BOOLEAN }

\* The document with the keys ks set to the fact fetched now.
PutAll(d, ks) == [k \in DOMAIN d \cup ks |-> IF k \in ks THEN NewFact ELSE d[k]]

StoreInit ==
  /\ \E st \in Stores :
       Constructed(st[1], st[2], TRUE, [r \in Rules |-> TRUE])
  /\ PollIdle
  /\ CheckIdle
  /\ PageIdle
  /\ storePc = "load"
  /\ todo \in Writers
  /\ data = EmptyDoc
  /\ before = [file |-> "none"]
  /\ seen = [file |-> "none"]

\* The access is over: on to the next one of the method.
Stored(rest) == IF rest = << >> THEN "done" ELSE "load"

\* open(fileName, 'r') and json.load.  getOrgVDCUrl opens the file only when
\* it exists and writes only when it loaded no data; the other writers open
\* it unconditionally.
StoreLoad ==
  /\ storePc = "load"
  /\ before' = View(file, doc)
  /\ LET acc == Head(todo)
         absent == file = "absent"
         found == IF absent THEN EmptyDoc ELSE doc
     IN IF Unreadable(file) \/ (absent /\ acc.kind = "update")
          THEN /\ storePc' = "raised"
               /\ UNCHANGED << todo, data >>
          ELSE IF acc.kind = "create" /\ found # EmptyDoc
                 THEN /\ storePc' = Stored(Tail(todo))
                      /\ todo' = Tail(todo)
                      /\ data' = found
                 ELSE /\ storePc' = "open"
                      /\ data' = PutAll(found, acc.keys)
                      /\ UNCHANGED todo
  /\ UNCHANGED << runVars, pollVars, checkVars, pageVars, file, doc, seen >>

\* open(fileName, 'w'): the file is cut to length zero.
StoreOpen ==
  /\ storePc = "open"
  /\ storePc' = "dump"
  /\ file' = "truncated"
  /\ UNCHANGED << runVars, pollVars, checkVars, pageVars, doc, todo, data, before, seen >>

\* json.dump and the end of the with-block.
StoreDump ==
  /\ storePc = "dump"
  /\ storePc' = Stored(Tail(todo))
  /\ todo' = Tail(todo)
  /\ file' = "json"
  /\ doc' = data
  /\ UNCHANGED << runVars, pollVars, checkVars, pageVars, data, before, seen >>

\* A reader outside the program opens the file.
ExternalRead ==
  /\ storePc \notin {"idle"}
  /\ seen' = View(file, doc)
  /\ UNCHANGED << mainVars, pollVars, checkVars, pageVars, storePc, todo, data, before >>

StoreNext ==
  \/ StoreLoad
  \/ StoreOpen
  \/ StoreDump
  \/ ExternalRead

StoreSpec == StoreInit /\ [][StoreNext]_vars

\* ------------------------------------------------- one validation on its own
\* The validations that decide on the content of a payload, each applied to
\* payloads drawn from small sets.

\* Addresses are AddrBits bits wide, most significant bit first.
AddrBits == 3
Addresses == [1..AddrBits -> {0, 1}]
Subnets == [gateway : Addresses, prefixLength : 0..AddrBits]

\* ipaddress.ip_network(.., strict=False): the host bits are cleared.
MaskedNot(a, p) == a
Masked(a, p) == [i \in 1..AddrBits |-> IF i <= p THEN a[i] ELSE 0]

IpNetwork(sub) ==
  << Masked(sub.gateway, sub.prefixLength), sub.prefixLength >>

\* A further subnet some external networks have after their first one.
OtherSubnet == [gateway |-> [i \in 1..AddrBits |-> 1], prefixLength |-> AddrBits]

\* Payloads of validateExternalNetworkSubnets: the subnets.values lists of the
\* source and of the target external network.
SubnetPayloads ==
  { [source |-> IF xs THEN << s, OtherSubnet >> ELSE << s >>,
     target |-> IF xt THEN << t, OtherSubnet >> ELSE << t >>] :
      s \in Subnets, t \in Subnets, xs \in BOOLEAN, xt \in BOOLEAN }

\* Lines 514-521.
ExternalNetworkSubnets(in) ==
  IF IpNetwork(in.source[1]) # IpNetwork(in.target[1])
    THEN Failure("different subnets", 0)
    ELSE Passed

\* A collection in a parsed XML payload: the parser gives a bare record for
\* one element, a list for several, nothing for none; a document saved as
\* JSON may hold a one-element list too.
MaxItems == 2
NoColl == [shape |-> "none", items |-> << >>]
Bare(x) == [shape |-> "record", items |-> << x >>]
Listed(s) == [shape |-> "list", items |-> s]
Single(X) == { Bare(x) : x \in X } \cup { Listed(<< x >>) : x \in X }
Collections(X) ==
  { Bare(x) : x \in X }
    \cup { Listed(s) : s \in UNION { [1..n -> X] : n \in 1..MaxItems } }

\* x if isinstance(x, list) else [x]
Normalized(c) == c.items

\* for x in c: x['key'].  Iterating a record yields its keys, which are
\* strings, and subscripting a string by a string raises TypeError.
Subscriptable(c) == c.shape = "list"
StringIndices == Failure("string indices must be integers", 0)

\* The other encoding of the same collection.
Flip(c) ==
  IF c.shape = "record" THEN Listed(c.items)
  ELSE IF c.shape = "list" /\ Len(c.items) = 1 THEN Bare(c.items[1])
  ELSE c

\* The least index of a set of indices, 0 if there is none: where a loop
\* that raises at the first element it rejects stops.
First(at) == IF at = {} THEN 0 ELSE CHOOSE i \in at : \A j \in at : i <= j

\* ---- getEdgeGatewayNatConfig, lines 961-978.
\* Translated addresses: a single address, a range, a network.
TranslatedAddresses == { << "a" >>, << "a", "-", "b" >>, << "a", "/", "n" >> }
NatRules == [action : {"dnat", "snat"}, translatedAddress : TranslatedAddresses]

\* The rule of a list at position i has ruleId i.
Numbered(s, key) ==
  [i \in 1..Len(s) |->
     [f \in DOMAIN s[i] \cup {key} |-> IF f = key THEN i ELSE s[i][f]]]
NumberedColl(c, key) == [c EXCEPT !.items = Numbered(c.items, key)]

NatPayloads ==
  { [ok |-> ok, nat64Rules |-> n64, natRules |-> NumberedColl(c, "ruleId")] :
      ok \in BOOLEAN, n64 \in BOOLEAN,
      c \in {NoColl} \cup Collections(NatRules) }

\* Line 974:  a and b or c  is  (a and b) or c.
IsRange(r) == Contains(<< "-" >>, r.translatedAddress)
IsNetwork(r) == Contains(<< "/" >>, r.translatedAddress)
RejectedNatRule(r) == (r.action = "dnat" /\ IsRange(r)) \/ IsNetwork(r)

NatConfig(in) ==
  IF ~in.ok THEN Failure("Failed to retrieve the NAT Configurations", 0)
  ELSE IF in.nat64Rules THEN Failure("Nat64 rule is configured", 0)
  ELSE IF in.natRules = NoColl THEN Passed
  ELSE LET natrules == Normalized(in.natRules)
           i == First({ k \in DOMAIN natrules : RejectedNatRule(natrules[k]) })
       IN IF i = 0 THEN Passed
          ELSE Failure("Range of IPs or network found", natrules[i].ruleId)

NatReencoded(in) == [in EXCEPT !.natRules = Flip(@)]

\* ---- getEdgeGatewayFirewallConfig, lines 905-942.
Services == [protocol : {"tcp", "icmp"}, port : {"any", "80"}]
GroupingObjects == {"ipset", "vm"}

PlainRule(t, a) ==
  [ruleType |-> t, action |-> a, service |-> NoColl, vnicGroupId |-> FALSE,
   groupingObjectId |-> NoColl]

\* Firewall rules: of either type and action, and user rules with services,
\* with a vnic group or with grouping objects as their source.
FirewallRules ==
  { PlainRule(t, a) : t \in {"user", "default_policy"},
                      a \in {"accept", "deny"} }
    \cup { [PlainRule("user", "accept") EXCEPT !.service = c] :
             c \in Single(Services) }
    \cup { [PlainRule("user", "accept") EXCEPT !.vnicGroupId = TRUE] }
    \cup { [PlainRule("user", "accept") EXCEPT !.groupingObjectId = c] :
             c \in Single(GroupingObjects) }

FirewallPayloads ==
  { [ok |-> ok, enabled |-> en, firewallRule |-> NumberedColl(c, "id")] :
      ok \in BOOLEAN, en \in BOOLEAN, c \in Collections(FirewallRules) }

\* Lines 919-931: what one rule of userDefinedFirewall is rejected for.
AnyPort(sv) == sv.protocol \in {"tcp", "udp"} /\ sv.port = "any"
Unsupported(g) == g \notin {"ipset", "network"}
RuleError(r) ==
  IF \E k \in DOMAIN Normalized(r.service) : AnyPort(Normalized(r.service)[k])
    THEN Failure("Any as a TCP/UDP port is not supported", 0)
  ELSE IF r.vnicGroupId THEN Failure("Vnic group is present", r.id)
  ELSE IF \E k \in DOMAIN Normalized(r.groupingObjectId) :
            Unsupported(Normalized(r.groupingObjectId)[k])
    THEN Failure("The object type is not supported", r.id)
  ELSE Passed

\* Lines 910-915: the user rules, then the default rules that do not accept.
IsUser(r) == r.ruleType = "user"
IsDeny(r) == r.ruleType = "default_policy" /\ r.action # "accept"
IsRejected(r) == RuleError(r).raised

FirewallConfig(in) ==
  IF ~in.ok THEN Failure("Failed to retrieve the Firewall Configurations", 0)
  ELSE IF ~in.enabled THEN Failure("Firewall is disabled in source", 0)
  ELSE IF ~Subscriptable(in.firewallRule) THEN StringIndices
  ELSE LET all == in.firewallRule.items
           userDefinedFirewall == SelectSeq(all, IsUser) \o SelectSeq(all, IsDeny)
           i == First({ k \in DOMAIN userDefinedFirewall :
                          IsRejected(userDefinedFirewall[k]) })
       IN IF i = 0 THEN Passed ELSE RuleError(userDefinedFirewall[i])

FlipRule(r) ==
  [r EXCEPT !.service = Flip(@), !.groupingObjectId = Flip(@)]
FirewallReencoded(in) ==
  LET c == Flip(in.firewallRule)
  IN [in EXCEPT !.firewallRule =
        [c EXCEPT !.items = [i \in 1..Len(c.items) |-> FlipRule(c.items[i])]]]

\* ---- validateHardwareVersion, lines 1645-1665.
\* Hardware versions vmx-1 .. vmx-MaxVersion, by their number.
MaxVersion == 3
HardwarePayloads ==
  [source : Collections(1..MaxVersion), target : Collections(1..MaxVersion)]

Highest(s) == CHOOSE v \in 0..MaxVersion :
  /\ \A i \in 1..Len(s) : s[i] <= v
  /\ v = 0 \/ \E i \in 1..Len(s) : s[i] = v

\* Line 1660 raises a string, which is itself a TypeError.
HardwareVersion(in) ==
  IF ~Subscriptable(in.source) \/ ~Subscriptable(in.target) THEN StringIndices
  ELSE IF Highest(in.source.items) > Highest(in.target.items)
    THEN Failure("exceptions must derive from BaseException", 0)
  ELSE Passed

HardwareReencoded(in) ==
  [source |-> Flip(in.source), target |-> Flip(in.target)]

\* ---- enableOrDisableSourceAffinityRules, lines 576-602: the payloads built
\* from the affinity rules of the document.
VmReferences == {"vm1", "vm2"}
AffinityRules == [VmReference : Collections(VmReferences)]
AffinityPayloads == {NoColl} \cup Collections(AffinityRules)

BareReferences(r) == ~Subscriptable(r.VmReference)
AffinityPayload(in) ==
  IF \E k \in DOMAIN Normalized(in) : BareReferences(Normalized(in)[k])
    THEN StringIndices
    ELSE Passed

AffinityReencoded(in) ==
  LET c == Flip(in)
  IN [c EXCEPT !.items =
        [i \in 1..Len(c.items) |->
           [VmReference |-> Flip(c.items[i].VmReference)]]]

CheckInit ==
  /\ Constructed("json", EmptyDoc, TRUE, [r \in Rules |-> TRUE])
  /\ PollIdle
  /\ StoreIdle
  /\ PageIdle
  /\ chkOut = Pending
  /\ chkAlt = Pending
  /\ \/ chkOp = "validateExternalNetworkSubnets" /\ chkIn \in SubnetPayloads
     \/ chkOp = "getEdgeGatewayNatConfig" /\ chkIn \in NatPayloads
     \/ chkOp = "getEdgeGatewayFirewallConfig" /\ chkIn \in FirewallPayloads
     \/ chkOp = "validateHardwareVersion" /\ chkIn \in HardwarePayloads
     \/ chkOp = "enableOrDisableSourceAffinityRules"
          /\ chkIn \in AffinityPayloads

\* The state of the instance other than the rollback flags.
unflagged ==
  << status, step, stack, rb, VCD_SESSION_CREATED, bearerToken, isNSXTbacked,
     dnsConfigDict, file, doc, validToken, issued, expiries, srcVdcEnabled,
     ruleEnabled, trace, comp, origErr, raised, written, rewritten, reads,
     lastReq, guard, swallowed, disabledByRun, runs >>

\* validateExternalNetworkSubnets, lines 508-526, after its document is
\* loaded: the comparison, and the handler that sets the source flag.
validateExternalNetworkSubnets ==
  /\ chkOp = "validateExternalNetworkSubnets"
  /\ chkOut = Pending
  /\ chkOut' = ExternalNetworkSubnets(chkIn)
  /\ chkAlt' = chkOut'
  /\ ENABLE_SOURCE_ORG_VDC' = FlagAfter(ENABLE_SOURCE_ORG_VDC, chkOut'.raised)
  /\ UNCHANGED << unflagged, ENABLE_AFFINITY_RULES_IN_SOURCE_VAPP, pollVars,
                  storeVars, chkOp, chkIn,
                  pageVars >>

\* These three raise what they find and set no flag.
getEdgeGatewayNatConfig ==
  /\ chkOp = "getEdgeGatewayNatConfig"
  /\ chkOut = Pending
  /\ chkOut' = NatConfig(chkIn)
  /\ chkAlt' = NatConfig(NatReencoded(chkIn))
  /\ UNCHANGED << mainVars, pollVars, storeVars, chkOp, chkIn,
                  pageVars >>

getEdgeGatewayFirewallConfig ==
  /\ chkOp = "getEdgeGatewayFirewallConfig"
  /\ chkOut = Pending
  /\ chkOut' = FirewallConfig(chkIn)
  /\ chkAlt' = FirewallConfig(FirewallReencoded(chkIn))
  /\ UNCHANGED << mainVars, pollVars, storeVars, chkOp, chkIn,
                  pageVars >>

validateHardwareVersion ==
  /\ chkOp = "validateHardwareVersion"
  /\ chkOut = Pending
  /\ chkOut' = HardwareVersion(chkIn)
  /\ chkAlt' = HardwareVersion(HardwareReencoded(chkIn))
  /\ UNCHANGED << mainVars, pollVars, storeVars, chkOp, chkIn,
                  pageVars >>

\* The handler of lines 616-619 sets the source flag.
buildAffinityRulePayloads ==
  /\ chkOp = "enableOrDisableSourceAffinityRules"
  /\ chkOut = Pending
  /\ chkOut' = AffinityPayload(chkIn)
  /\ chkAlt' = AffinityPayload(AffinityReencoded(chkIn))
  /\ ENABLE_SOURCE_ORG_VDC' = FlagAfter(ENABLE_SOURCE_ORG_VDC, chkOut'.raised)
  /\ UNCHANGED << unflagged, ENABLE_AFFINITY_RULES_IN_SOURCE_VAPP, pollVars,
                  storeVars, chkOp, chkIn,
                  pageVars >>

CheckNext ==
  \/ validateExternalNetworkSubnets
  \/ getEdgeGatewayNatConfig
  \/ getEdgeGatewayFirewallConfig
  \/ validateHardwareVersion
  \/ buildAffinityRulePayloads

CheckSpec == CheckInit /\ [][CheckNext]_vars

\* ------------------------------------------- getOrgVDCComputePolicies alone
\* One call of getOrgVDCComputePolicies followed request by request, for a
\* remote system that answers every request.
MaxTotal == 4      \* the largest resultTotal the remote system reports
MaxPage == 4       \* pages the remote system serves
PageSize == 2      \* entries of a page, ORG_VDC_COMPUTE_POLICY_PAGE_SIZE

PageInit ==
  /\ Constructed("json", EmptyDoc, TRUE, [r \in Rules |-> TRUE])
  /\ PollIdle
  /\ StoreIdle
  /\ CheckIdle
  /\ pagePc = "entry"
  /\ resultTotal = 0
  /\ pageNo = 1
  /\ pageSizeCount = 0
  /\ pageTick = 0

\* Line 1201, the loop test.
MorePages == resultTotal > 0 /\ pageSizeCount < resultTotal

\* Lines 1190-1199: the first request.  On a non-OK answer resultTotal is not
\* assigned and the loop test of line 1201 raises UnboundLocalError.
PageFirst ==
  /\ pagePc = "entry"
  /\ pageTick' = 1 - pageTick
  /\ \E ok \in BOOLEAN, total \in 0..MaxTotal :
       IF ok
         THEN /\ resultTotal' = total
              /\ pagePc' = "loop"
         ELSE /\ pagePc' = "raised"
              /\ UNCHANGED resultTotal
  /\ UNCHANGED << mainVars, pollVars, storeVars, checkVars, pageNo,
                  pageSizeCount >>

\* Lines 1201-1211, one turn of the loop: the page is requested; an OK answer
\* with n values is counted and the next page is asked for, any other answer
\* is dropped and the same page is asked for again.
PageFetch ==
  /\ pagePc = "loop"
  /\ MorePages
  /\ pageTick' = 1 - pageTick
  /\ \E ok \in BOOLEAN, n \in 0..PageSize :
       IF ok
         THEN /\ pageNo < MaxPage
              /\ pageSizeCount' = pageSizeCount + n
              /\ pageNo' = pageNo + 1
         ELSE /\ n = 0
              /\ UNCHANGED << pageSizeCount, pageNo >>
  /\ UNCHANGED << mainVars, pollVars, storeVars, checkVars, pagePc,
                  resultTotal >>

\* Lines 1212-1214: the loop test fails, the list is returned.
PageReturn ==
  /\ pagePc = "loop"
  /\ ~MorePages
  /\ pagePc' = "returned"
  /\ UNCHANGED << mainVars, pollVars, storeVars, checkVars, resultTotal,
                  pageNo, pageSizeCount, pageTick >>

PageNext ==
  \/ PageFirst
  \/ PageFetch
  \/ PageReturn

\* The method keeps running: it is never suspended for ever.
PageSpec == PageInit /\ [][PageNext]_vars /\ WF_vars(PageNext)

\* ------------------------------------------------------------------ claims
Range(seq) == { seq[n] : n \in 1..Len(seq) }
Count(seq, x) == Cardinality({ n \in 1..Len(seq) : seq[n] = x })

\* The step op of the try-block has returned normally.
StepDone(op) == \E n \in 1..step : Steps[n].op = op

\* C1: when the run has failed, each mutation performed by a completed step
\* whose rollback flag is set had its compensating call invoked exactly once,
\* and the compensating calls were made in the order enableSourceOrgVdc, then
\* enableOrDisableSourceAffinityRules(enable=True).
C1_CompensatedOnceInOrder ==
  status = "failed" =>
    /\ ENABLE_SOURCE_ORG_VDC /\ StepDone("disableOrgVDC")
         => Count(comp, "enableSourceOrgVdc") = 1
    /\ ENABLE_AFFINITY_RULES_IN_SOURCE_VAPP
         /\ StepDone("enableOrDisableSourceAffinityRules")
         => Count(comp, "enableOrDisableSourceAffinityRules") = 1
    /\ comp \in { << >>, << "enableSourceOrgVdc" >>,
                  << "enableOrDisableSourceAffinityRules" >>,
                  << "enableSourceOrgVdc",
                     "enableOrDisableSourceAffinityRules" >> }

\* C2: the error that leaves preMigrationValidation is the error that ended
\* the try-block, whether the compensating calls succeeded or failed.
C2_OriginalErrorReraised ==
  status = "failed" => raised = origErr

\* C3: when the run has failed with both rollback flags set, the affinity-rule
\* re-enable call was attempted, also when enableSourceOrgVdc failed.
C3_AllCompensationsAttempted ==
  status = "failed" /\ ENABLE_SOURCE_ORG_VDC
     /\ ENABLE_AFFINITY_RULES_IN_SOURCE_VAPP
    => "enableOrDisableSourceAffinityRules" \in Range(comp)

\* C4: when disableOrgVDC has disabled the source org VDC and the run has
\* failed, the re-enable call for the source org VDC was issued before
\* preMigrationValidation gave control back to its caller.
C4_DisabledVdcReEnabled ==
  status = "failed" /\ disabledByRun => "enableSourceOrgVdc" \in Range(comp)

\* C5: the steps are invoked in declaration order, a step begins only after
\* all earlier steps returned normally, and once a step has raised no further
\* step of the try-block is invoked.
C5_OrderedFailFast ==
  /\ Len(trace) <= NSteps
  /\ \A n \in 1..Len(trace) : trace[n] = Steps[n]
  /\ Len(trace) \in {step, step + 1}
  /\ stack = << >> /\ status = "running" => Len(trace) = step
  /\ origErr # NoErr <=> status \in {"rollback", "failed"}
  /\ origErr # NoErr => Len(trace) = step + 1
  /\ status = "completed" => Len(trace) = NSteps /\ step = NSteps

\* A run that failed at the step after the affinity rules were disabled.
C5_Witness ==
  /\ status = "failed"
  /\ origErr.op = "validateSingleEdgeGatewayExistForOrgVDC"
  /\ Len(trace) = Len(PreSteps) + 7

\* Validations that only read the remote system or the document.
ReadOnlyValidations ==
  { "validateNoTargetOrgVDCExists", "validateNoEmptyVappsExistInSourceOrgVDC",
    "validateSourceSuspendedVMsInVapp", "validateNoVappNetworksExist",
    "validateOrgVDCFastProvisioned", "validateDedicatedExternalNetwork",
    "validateSourceNetworkPools", "validateOrgVDCNSXVbacked",
    "validateHardwareVersion", "validateTargetProviderVdc",
    "validateVMPlacementPolicy", "validateStorageProfiles",
    "validateExternalNetworkSubnets" }

\* C6 as stated: no read-only validation that can fail the pipeline runs
\* after disableOrgVDC.
C6_NoValidationAfterDisable ==
  \A n \in 1..Len(trace) :
    trace[n].op \in ReadOnlyValidations
      => \A m \in 1..(n - 1) : trace[m].op # "disableOrgVDC"

\* The validations the try-block lists before disableOrgVDC.
ChecksBeforeDisable ==
  { "validateNoTargetOrgVDCExists", "validateNoEmptyVappsExistInSourceOrgVDC",
    "validateSourceSuspendedVMsInVapp", "validateNoVappNetworksExist",
    "validateOrgVDCFastProvisioned", "validateDedicatedExternalNetwork",
    "validateSourceNetworkPools", "validateOrgVDCNSXVbacked",
    "validateHardwareVersion", "validateTargetProviderVdc" }

\* The read-only validations the try-block lists after disableOrgVDC.
ChecksAfterDisable ==
  { "validateVMPlacementPolicy", "validateStorageProfiles",
    "validateExternalNetworkSubnets" }

\* C6 as amended: disableOrgVDC is invoked only after each of the ten
\* validations listed before it has returned normally, and
\* validateVMPlacementPolicy, validateStorageProfiles and
\* validateExternalNetworkSubnets are invoked only after disableOrgVDC has
\* returned normally; a failure in the body of one of these three sets
\* ENABLE_SOURCE_ORG_VDC.
C6_DisableAfterListedChecks ==
  /\ \A n \in 1..Len(trace) :
       trace[n].op = "disableOrgVDC" =>
         /\ n <= step + 1
         /\ \A op \in ChecksBeforeDisable :
              \E m \in 1..(n - 1) : trace[m].op = op
  /\ \A n \in 1..Len(trace) :
       trace[n].op \in ChecksAfterDisable =>
         /\ StepDone("disableOrgVDC")
         /\ \E m \in 1..(n - 1) : trace[m].op = "disableOrgVDC"
  /\ origErr.op \in ChecksAfterDisable /\ origErr.kind = "body"
       => ENABLE_SOURCE_ORG_VDC

\* validateStorageProfiles rejected the source org VDC after disableOrgVDC
\* had disabled it.
C6_Witness ==
  /\ origErr.op = "validateStorageProfiles"
  /\ origErr.kind = "body"
  /\ disabledByRun
  /\ ENABLE_SOURCE_ORG_VDC

\* The run started on an empty document: getOrgVDCUrl stored the organization.
FreshRun == "Organization" \in written

\* C7: in a run that starts on an empty document, every key a step reads from
\* the document was written by an earlier step of the run, whatever the
\* backing types of the configured networks and provider VDCs.
C7_ReadsAreWritten == FreshRun => reads \subseteq written

\* C8: in every call of a guarded method, vcdLogin was invoked before the
\* method's body if and only if the probe returned a non-success status; a
\* successful probe never leads to a login.
C8_LoginIffProbeFailed ==
  /\ guard.probe = "ok" => guard.logins = 0
  /\ guard.bodies >= 1 => (guard.logins >= 1 <=> guard.probe = "bad")
  /\ guard.probe = "bad" /\ status = "completed" => guard.logins >= 1

\* A guarded method runs its body after a failed probe and one login.
C8_Witness ==
  /\ guard.probe = "bad"
  /\ guard.logins = 1
  /\ guard.bodies = 1
  /\ stack # << >>
  /\ Top.phase = "body"

\* C9: every remote request of a pipeline method is sent after a session
\* probe was made for that method call.
C9_EveryRequestProbed == lastReq.probed

\* C10: when the login started by the guard fails, the guard raises at once:
\* the wrapped method's body is not invoked and no second login is attempted.
C10_FailedLoginIsFatal ==
  guard.loginFailed =>
    /\ guard.bodies = 0
    /\ guard.logins = 1
    /\ status \in {"rollback", "failed"}

\* The guard of a step after disableOrgVDC failed to log in.
C10_Witness ==
  /\ guard.loginFailed
  /\ guard.op = "validateVMPlacementPolicy"
  /\ origErr.op = "vcdLogin"

\* The most status fetches one call makes: ceil(timeout / interval).
MaxFetches ==
  (VCD_CREATION_TIMEOUT + VCD_CREATION_INTERVAL - 1) \div VCD_CREATION_INTERVAL

\* C11: _checkTaskStatus has returned normally only if the task record of its
\* last fetch came with an OK response, has an operation name that contains
\* the expected task name, and has status "success".
C11_ReturnsOnlyOnMatchingSuccess ==
  pollPc = "returned" =>
    /\ responseDict.code = "ok"
    /\ responseDict.Task
    /\ Contains(taskName, responseDict.operationName)
    /\ responseDict.status = "success"

C11_Witness ==
  /\ pollPc = "returned"
  /\ fetches = 2
  /\ taskName = << "a", "b" >>

\* C12: a call makes at most ceil(timeout / interval) status fetches; once it
\* has made that many without an end it can only raise the timeout error, and
\* the timeout error names the task.
C12_BoundedPolling ==
  /\ fetches <= MaxFetches
  /\ pollPc = "loop" /\ fetches = MaxFetches => Expired(timeout)
  /\ pollPc # "idle" /\ pollErr.kind = "timeout"
       => fetches = MaxFetches /\ pollErr.text = taskName

C12_Witness ==
  /\ pollPc = "raised"
  /\ pollErr.kind = "timeout"
  /\ fetches = MaxFetches

\* C13: when the last fetch saw the expected task with status "error", the
\* call has raised, so it polls no more, and the error carries the Details of
\* that record.
C13_FailedTaskRaisesDetails ==
  /\ responseDict.code = "ok"
  /\ responseDict.Task
  /\ Contains(taskName, responseDict.operationName)
  /\ responseDict.status = "error"
  => /\ pollPc = "raised"
     /\ responseDict.Details # ""
          => pollErr = [kind |-> "task", text |-> responseDict.Details]

C13_Witness ==
  /\ pollPc = "raised"
  /\ pollErr.kind = "task"
  /\ fetches = 2

\* C14: after n fetches that all saw the task running, with n * interval
\* below the timeout, the next fetch is made; and a fetch that sees the task
\* succeeded makes the call return normally, without the timeout error.
C14_SuccessBeforeDeadlineReturns ==
  /\ pollPc = "loop" /\ leading = fetches
       /\ fetches * VCD_CREATION_INTERVAL < VCD_CREATION_TIMEOUT
       => ~Expired(timeout)
  /\ pollPc # "idle" /\ responseDict.code = "ok" /\ responseDict.Task
       /\ Contains(taskName, responseDict.operationName)
       /\ responseDict.status = "success"
       => pollPc = "returned" /\ pollErr.kind = "none"

C14_Witness ==
  /\ pollPc = "returned"
  /\ leading = 3
  /\ fetches = 4

\* C15: a step that changes the document keeps every key it had, and changes
\* the value of no key other than the ones the run has written.
C15_WritesPreserveOtherKeys ==
  [][\A k \in DOMAIN doc :
       /\ k \in DOMAIN doc'
       /\ doc'[k] # doc[k] => k \in written' /\ doc'[k] = NewFact]_vars

C15_Witness ==
  /\ "sourceExternalNetwork" \in written
  /\ "sourceOrgVDC" \in written
  /\ doc["Organization"].run = "old"
  /\ doc["sourceEdgeGateway"].run = "old"

\* C18: while the file is corrupt no step changes it or stores a fact, the
\* run does not get past the first step that opens it, and that step ends the
\* try-block with an error.
C18_CorruptStoreFailsLoudly ==
  [][file = "corrupt" =>
       /\ file' = "corrupt"
       /\ written' = {}
       /\ step' <= 2
       /\ status' # "completed"
       /\ InBody("getOrgVDCDetails") /\ stack' # stack
            => status' = "rollback" /\ origErr' # NoErr]_vars

C18_Witness ==
  /\ file = "corrupt"
  /\ status = "failed"
  /\ raised.kind = "json"

\* C19: no key of the document is written twice in one run.
C19_KeysWrittenOnce ==
  rewritten = {}

\* C16: a reader outside the program never finds the file cut short: what it
\* finds is what the file held before the write or what it holds after it.
C16_ReaderSeesCompleteDocument ==
  seen.file # "truncated"

\* The access found no file, or a file holding the empty document.
EmptyBefore ==
  \/ before.file = "absent"
  \/ before.file = "json" /\ before.doc = EmptyDoc

\* C17: an access that found no file or the empty document does not raise,
\* and when it has dumped, the file holds exactly the keys it wrote, with the
\* values it wrote.
C17_BootstrapWritesSingleKey ==
  [][/\ storePc' = "raised" => ~EmptyBefore'
     /\ storePc = "dump" /\ storePc' # "dump" /\ EmptyBefore
          => /\ file' = "json"
             /\ doc' = [k \in Head(todo).keys |-> NewFact]]_vars

\* C20: no step of a run sets a rollback flag that is true back to false.
C20_FlagsWriteOnceTrue ==
  [][/\ ENABLE_SOURCE_ORG_VDC => ENABLE_SOURCE_ORG_VDC'
     /\ ENABLE_AFFINITY_RULES_IN_SOURCE_VAPP
          => ENABLE_AFFINITY_RULES_IN_SOURCE_VAPP']_vars

C20_Witness ==
  /\ status = "failed"
  /\ ENABLE_SOURCE_ORG_VDC
  /\ ENABLE_AFFINITY_RULES_IN_SOURCE_VAPP
  /\ raised # origErr

\* C21: each rollback flag is true as soon as the step that performs the
\* mutation has done so: the source flag once disableOrgVDC has disabled the
\* org VDC, the affinity flag once the affinity-disable step has run, also
\* when no step has failed.
C21_FlagSetByMutatingStep ==
  /\ StepDone("disableOrgVDC") /\ disabledByRun => ENABLE_SOURCE_ORG_VDC
  /\ StepDone("enableOrDisableSourceAffinityRules")
       => ENABLE_AFFINITY_RULES_IN_SOURCE_VAPP

\* C23: no method returns normally after a non-OK response to the request
\* it sent.
C23_NoErrorSwallowed ==
  ~swallowed

\* C22: when the body of validateSingleEdgeGatewayExistForOrgVDC ended the
\* try-block with an error, both rollback flags are true and the run has not
\* written sourceEdgeGateway.
C22_EdgeGatewayFailureSetsBothFlags ==
  /\ origErr.op = "validateSingleEdgeGatewayExistForOrgVDC"
  /\ origErr.kind = "body"
  => /\ ENABLE_SOURCE_ORG_VDC
     /\ ENABLE_AFFINITY_RULES_IN_SOURCE_VAPP
     /\ "sourceEdgeGateway" \notin written

C22_Witness ==
  /\ origErr.op = "validateSingleEdgeGatewayExistForOrgVDC"
  /\ origErr.kind = "body"
  /\ status = "failed"
  /\ comp = << "enableSourceOrgVdc", "enableOrDisableSourceAffinityRules" >>

\* The first subnets of the two networks agree in prefix length and in every
\* gateway bit the prefix covers.
SameFirstSubnet(in) ==
  LET s == in.source[1]
      t == in.target[1]
  IN /\ s.prefixLength = t.prefixLength
     /\ \A i \in 1..s.prefixLength : s.gateway[i] = t.gateway[i]

\* C25: validateExternalNetworkSubnets raises the "different subnets" error
\* exactly when the networks of the first subnets differ, and when it raises
\* the source org VDC rollback flag is set.
C25_SubnetsCompared ==
  chkOp = "validateExternalNetworkSubnets" /\ Ended(chkOut) =>
    /\ chkOut.raised <=> ~SameFirstSubnet(chkIn)
    /\ chkOut.raised => chkOut.error = "different subnets"
    /\ chkOut.raised => ENABLE_SOURCE_ORG_VDC

C25_Witness ==
  /\ chkOp = "validateExternalNetworkSubnets"
  /\ Ended(chkOut)
  /\ chkOut.raised
  /\ chkIn.source[1].gateway = chkIn.target[1].gateway
  /\ chkIn.source[1].prefixLength = 2
  /\ chkIn.target[1].prefixLength = 3
  /\ ENABLE_SOURCE_ORG_VDC

\* C24: every check that consumes a remote collection ends the same way on a
\* payload and on the payload with each one-element collection in its other
\* encoding, bare record or one-element sequence.
C24_SameOutcomeForEitherEncoding == Ended(chkOut) => chkOut = chkAlt

\* A DNAT rule whose translated address is a range of addresses.
DnatRange(r) == r.action = "dnat" /\ IsRange(r)

\* C26: when the NAT rules retrieved hold a DNAT rule whose translated address
\* is a range, getEdgeGatewayNatConfig raises an error that names the
\* identifier of the first such rule.
C26_RangeDnatRejectedByName ==
  /\ chkOp = "getEdgeGatewayNatConfig"
  /\ Ended(chkOut)
  /\ chkIn.ok
  /\ ~chkIn.nat64Rules
  => LET natrules == chkIn.natRules.items
         i == First({ k \in DOMAIN natrules : DnatRange(natrules[k]) })
     IN i # 0 => /\ chkOut.raised
                 /\ chkOut.id = natrules[i].ruleId

\* C28: validateHardwareVersion is a step before disableOrgVDC, and it raises
\* exactly when the highest hardware version of the source provider VDC
\* exceeds the highest of the target provider VDC.
C28_HardwareVersionGate ==
  /\ \A n, m \in 1..NSteps :
       /\ Steps[n].op = "validateHardwareVersion"
       /\ Steps[m].op = "disableOrgVDC"
       => n < m
  /\ chkOp = "validateHardwareVersion" /\ Ended(chkOut) =>
       (chkOut.raised <=>
          Highest(chkIn.source.items) > Highest(chkIn.target.items))

C29_RequestsCarryLatestToken ==
  lastReq # NoReq /\ lastReq.logins >= 1 => lastReq.token = lastReq.logins

\* The guard of a method logged in again, after the login of step 1, and the
\* method sent its request with the token of the second login.
C29_Witness ==
  /\ lastReq.logins = 2
  /\ lastReq.token = 2
  /\ lastReq.op = guard.op
  /\ guard.logins = 1
  /\ ~guard.loginFailed

\* C30: a decorated method is probed once before its body, never while or
\* after its body runs, and in a call of the guard whose login did not fail
\* the body is entered exactly once: not before the login when one is needed,
\* and never a second time.
C30_OneProbeOneBody ==
  /\ \A n \in 1..Len(stack) :
       stack[n].op \in Guarded =>
         /\ stack[n].phase = "probe" => ~stack[n].probed
         /\ stack[n].phase \in {"login", "body"} => stack[n].probed
  /\ guard.bodies <= 1
  /\ guard # NoGuard /\ ~guard.loginFailed =>
       guard.bodies = IF stack # << >> /\ Top.phase = "login" THEN 0 ELSE 1

\* The body of a decorated method runs after its probe and a login.
C30_Witness ==
  /\ stack # << >>
  /\ Top.op \in Guarded
  /\ Top.phase = "body"
  /\ Top.probed
  /\ guard.op = Top.op
  /\ guard.logins = 1
  /\ guard.bodies = 1
  /\ expiries = 1

\* C31: a call of _checkTaskStatus changes nothing that other operations
\* share: the entries of self.headers, the rollback flags, the document.
C31_PollerLeavesSharedStateAlone ==
  [][/\ contentType' = contentType
     /\ bearerToken' = bearerToken
     /\ ENABLE_SOURCE_ORG_VDC' = ENABLE_SOURCE_ORG_VDC
     /\ ENABLE_AFFINITY_RULES_IN_SOURCE_VAPP'
          = ENABLE_AFFINITY_RULES_IN_SOURCE_VAPP
     /\ doc' = doc
     /\ file' = file]_vars

\* A rule with a range or a network as translated address that is a DNAT rule.
DnatRangeOrNetwork(r) == r.action = "dnat" /\ (IsRange(r) \/ IsNetwork(r))

\* C39: getEdgeGatewayNatConfig raises the range/network error only if some
\* DNAT rule has a range or a network as its translated address.
C39_OnlyDnatRulesRejected ==
  /\ chkOp = "getEdgeGatewayNatConfig"
  /\ chkOut.error = "Range of IPs or network found"
  => \E k \in DOMAIN chkIn.natRules.items :
       DnatRangeOrNetwork(chkIn.natRules.items[k])

\* The except-block was left by its last statement: no compensating call
\* raised.
RolledBack == status = "failed" /\ rb = 3 /\ raised = origErr

\* The enabled state of the affinity rules as getOrgVDCAffinityRules recorded
\* it in this run, which is their state before the run disabled any of them.
Recorded == doc["sourceVMAffinityRules"].rules

\* C32: after a failed run whose compensating calls all succeeded, every
\* affinity rule has the enabled state it had before the run.
C32_AffinityRulesRestored ==
  RolledBack /\ "sourceVMAffinityRules" \in written =>
    \A r \in Rules : ruleEnabled[r] = Recorded[r]

\* C36: when the affinity-disable step completed and the re-enable call of the
\* rollback completed, every rule has its recorded IsEnabled value.
C36_DisableThenEnableRoundTrip ==
  /\ RolledBack
  /\ StepDone("enableOrDisableSourceAffinityRules")
  /\ "enableOrDisableSourceAffinityRules" \in Range(comp)
  => \A r \in Rules : ruleEnabled[r] = Recorded[r]

\* The round trip over a rule that was enabled and a rule that was not.
C36_Witness ==
  /\ RolledBack
  /\ StepDone("enableOrDisableSourceAffinityRules")
  /\ "enableOrDisableSourceAffinityRules" \in Range(comp)
  /\ \E r \in Rules : Recorded[r] /\ ruleEnabled[r]
  /\ \E r \in Rules : ~Recorded[r] /\ ~ruleEnabled[r]

\* C33: in the run of a freshly constructed instance a compensating call is
\* made only after the step of its mutation returned: none when the run
\* failed before disableOrgVDC returned, and the re-enable of the affinity
\* rules only after enableOrDisableSourceAffinityRules(enable=False) returned.
C33_CompensationOnlyAfterMutation ==
  /\ "enableSourceOrgVdc" \in Range(comp) => StepDone("disableOrgVDC")
  /\ "enableOrDisableSourceAffinityRules" \in Range(comp)
       => StepDone("enableOrDisableSourceAffinityRules")
  /\ ~StepDone("disableOrgVDC") => comp = << >>

\* A run failed at the last step before disableOrgVDC and left the
\* except-block without a compensating call.
C33_Witness ==
  /\ status = "failed"
  /\ origErr.op = "validateTargetProviderVdc"
  /\ rb = 3
  /\ comp = << >>

\* C34: when a run starts both rollback flags are false, also on an instance
\* whose earlier run failed; and a run that failed before the source org VDC
\* id was known made no compensating call and raised the error of its step.
C34_FlagsFalseAtStartOfRun ==
  /\ status = "running" /\ step = 0 /\ stack = << >> =>
       /\ ~ENABLE_SOURCE_ORG_VDC
       /\ ~ENABLE_AFFINITY_RULES_IN_SOURCE_VAPP
  /\ status = "failed" /\ ~SourceIdBound =>
       /\ comp = << >>
       /\ raised = origErr

\* The sourceOrgVDC fact stored in this run says the org VDC is disabled.
RecordedDisabled ==
  "sourceOrgVDC" \in written /\ ~doc["sourceOrgVDC"].IsEnabled

\* C35: when the sourceOrgVDC fact recorded in the run says the source org
\* VDC is disabled, no request of disableOrgVDC or enableSourceOrgVdc is sent
\* and the org VDC stays disabled.
C35_DisabledVdcLeftAlone ==
  RecordedDisabled =>
    /\ lastReq.op \notin {"disableOrgVDC", "enableSourceOrgVdc"}
    /\ ~disabledByRun
    /\ ~srcVdcEnabled

\* A run over a disabled source org VDC failed after disableOrgVDC and called
\* enableSourceOrgVdc in its rollback.
C35_Witness ==
  /\ RecordedDisabled
  /\ StepDone("disableOrgVDC")
  /\ status = "failed"
  /\ comp # << >>
  /\ comp[1] = "enableSourceOrgVdc"

\* C37: every fact a method has just read from the document was written in
\* the current run.
C37_FactsReadWereWrittenInRun ==
  \A k \in reads : k \in DOMAIN doc => k \in written

\* C38: when every request is answered, the paging loop of
\* getOrgVDCComputePolicies ends, with the list returned or an error raised,
\* and so the run that called it ends.
C38_PagingLoopTerminates == <>(pagePc \in {"returned", "raised"})

====
